---- MODULE Spec2Model ----
(***************************************************************************)
(* MedEye detection pipeline: the inference orchestrator of main.js        *)
(* (detectMedicine, detectMedicineWithWorker, detectMedicineMainThread,    *)
(* loadYOLOModel, initYOLOWorker, preloadModel), its result cache and      *)
(* counters, and the message handler of static/js/yolo-worker.js.          *)
(*                                                                         *)
(* The page runs on one JavaScript event loop: a task (a DOM event, a      *)
(* worker message, the completion of an asynchronous tensor operation)     *)
(* runs to completion and the promise reactions it queued ("microtasks")   *)
(* are drained in FIFO order before the next task starts.  The model keeps *)
(* that queue explicitly; every task of the page is guarded by an empty    *)
(* microtask queue.  The worker is a second thread with its own steps.     *)
(***************************************************************************)
EXTENDS Integers, Sequences, FiniteSets, TLC

\* ------------------------------------------------------------------ bounds
NumCalls == 2          \* detect() calls that may be in flight together
MaxStarts == 3         \* detect() invocations in one behaviour
MaxLoads == 2          \* tf.loadGraphModel invocations in one behaviour
NumImages == 2         \* distinct images offered to detect()
MaxElapsed == 1        \* largest performance.now() difference of one call

CacheExtra == 2        \* distinct cache keys beyond MAX_CACHE_SIZE
MaxCand == 3           \* candidates handed to nonMaxSuppression
MaxCoord == 1          \* largest box origin coordinate
MaxSize == 2           \* largest box extent
MaxScore == 2          \* scores are 1..MaxScore
MaxAnchors == 2        \* anchors in one raw model output
NumClasses == 2        \* class confidences per anchor
MaxRaw == 1            \* raw box values are 0..MaxRaw, in units of 1 / MaxRaw
MaxDim == 2            \* largest image width; the largest height is one more
MaxRequests == 3       \* messages posted to a worker on its own
MaxProgress == 1       \* onProgress calls of one tf load
MaxFetches == 3        \* fetch events the service worker receives
MaxPending == 2        \* fetch events not yet finished, at a time

\* ------------------------------------------------------- program constants
MAX_CACHE_SIZE == 10
KeySrcLen == 50
iouThreshold == [num |-> 45, den |-> 100]     \* MODEL_CONFIG.iouThreshold
MAX_DETECTIONS == 100                         \* MODEL_CONFIG.maxDetections
scoreThreshold == 25              \* MODEL_CONFIG.scoreThreshold, in hundredths

NULL == 0
Calls == 1..NumCalls
PRELOAD == 0           \* the caller of loadYOLOModel() inside preloadModel
Callers == {PRELOAD} \cup Calls
LoadIds == 1..MaxLoads

MkImage(i) ==
    [id |-> i, src |-> <<i>>, width |-> 1, height |-> 1,
     naturalWidth |-> 1, naturalHeight |-> 1]
Images == {MkImage(i) : i \in 1..NumImages}
NoImage ==
    [id |-> 0, src |-> <<>>, width |-> 0, height |-> 0,
     naturalWidth |-> 0, naturalHeight |-> 0]

\* The detection list the model + decoder + suppression produce for an image.
DetectionsOf(img) == [of |-> img.id]
NoDetections == [of |-> 0]

Min(a, b) == IF a < b THEN a ELSE b
Max(a, b) == IF a > b THEN a ELSE b

VARIABLES
    useWebWorker,        \* let useWebWorker
    yoloWorker,          \* let yoloWorker: NULL or the Worker handle 1
    yoloModel,           \* let yoloModel: NULL or the id of the load that produced it
    isModelLoading,      \* let isModelLoading
    modelLoadPromise,    \* let modelLoadPromise: NULL or the id of a tf load
    performanceMetrics,  \* const performanceMetrics
    detectionCache,      \* const detectionCache: Map, as a sequence in insertion order
    listeners,           \* handleResult listeners registered on the worker, in order
    calls,               \* one record per detect() call slot (and the preload caller)
    tfLoad,              \* state of each tf.loadGraphModel promise
    loadWaiters,         \* per tf load, the callers awaiting it, in await order
    microtasks,          \* pending promise reactions of the page, FIFO
    pagePhase,           \* "init" before DOMContentLoaded ran preloadModel, then "ready"
    windowWorker,        \* window.Worker is available
    started,             \* number of detect() invocations so far
    inbox,               \* messages posted to the worker, not yet handled
    outbox,              \* messages posted by the worker, not yet delivered
    wScript,             \* worker script: "none", "starting", "running", "dead"
    wYoloModel,          \* worker's let yoloModel (loaded or not)
    wIsModelLoading,     \* worker's let isModelLoading
    wRunning,            \* infer requests inside runInference, in arrival order
    wHistory,            \* worker history: requests received and not yet answered
    ghost,               \* history: the last settled call and the keys newly inserted
    pure,                \* input and outputs of the suppression functions
    sw                   \* the service worker: its cache and its fetch events

vars == <<useWebWorker, yoloWorker, yoloModel, isModelLoading, modelLoadPromise,
          performanceMetrics, detectionCache, listeners, calls, tfLoad,
          loadWaiters, microtasks, pagePhase, windowWorker, started,
          inbox, outbox, wScript, wYoloModel, wIsModelLoading, wRunning,
          wHistory, ghost, pure, sw>>

\* ------------------------------------------------------------ initial state
ZeroMetrics ==
    [modelLoadTime |-> 0, inferenceCount |-> 0, totalInferenceTime |-> 0,
     averageInferenceTime |-> [num |-> 0, den |-> 1],
     cachedResults |-> 0, workerUsage |-> 0]

IdleCall ==
    [pc |-> "idle", img |-> NoImage, inRetry |-> FALSE, missed |-> FALSE,
     overlapped |-> FALSE, dispatches |-> 0, mainRuns |-> 0,
     workerFailed |-> FALSE, pending |-> NoDetections, waitingOn |-> NULL,
     result |-> NoDetections, err |-> "none", stored |-> FALSE,
     undisposed |-> FALSE,
     puts |-> 0, after |-> [valid |-> FALSE, result |-> NoDetections]]

NoKey == [src |-> <<>>, width |-> 0, height |-> 0]

\* No settled call to compare with; no key stored, no two calls in flight
\* together, no call that missed the cache resolved since the last reset.
NoHistory ==
    [last |-> [valid |-> FALSE, key |-> NoKey, result |-> NoDetections],
     clock |-> 0, stamps |-> {}, overlap |-> FALSE, misses |-> 0]

\* The worker owes no response; the current load posted no progress.
NoRequests == [loads |-> 0, infers |-> 0, progress |-> 0]

\* No suppression run yet.
PureIdle ==
    [phase |-> "off", boxes |-> <<>>, scores |-> <<>>, maxDetections |-> 0,
     main |-> <<>>, worker |-> <<>>,
     iou |-> [num |-> 0, den |-> 1], workerIou |-> [num |-> 0, den |-> 1]]

\* An empty slot of the service worker's fetch events.
NoRequest == [path |-> "", search |-> ""]

NoResponse == [status |-> 0, type |-> "none", url |-> NoRequest]

IdleFetch ==
    [pc |-> "idle", req |-> NoRequest, responded |-> FALSE, netFetches |-> 0,
     net |-> NoResponse, answer |-> NoResponse, fromCache |-> FALSE,
     putPending |-> FALSE, stored |-> FALSE]

\* No service worker registered yet.
SwOff ==
    [phase |-> "off", cache |-> {},
     events |-> [e \in 1..MaxPending |-> IdleFetch], fetched |-> 0]

\* The state after both scripts' initialisers; script: whether the worker
\* script was started.
InitWith(script) ==
    /\ useWebWorker = TRUE
    /\ yoloWorker = NULL
    /\ yoloModel = NULL
    /\ isModelLoading = FALSE
    /\ modelLoadPromise = NULL
    /\ performanceMetrics = ZeroMetrics
    /\ detectionCache = <<>>
    /\ listeners = <<>>
    /\ calls = [c \in Callers |-> IdleCall]
    /\ tfLoad = [l \in LoadIds |-> "unused"]
    /\ loadWaiters = [l \in LoadIds |-> <<>>]
    /\ microtasks = <<>>
    /\ pagePhase = "init"
    /\ windowWorker \in BOOLEAN
    /\ started = 0
    /\ inbox = <<>>
    /\ outbox = <<>>
    /\ wScript = script
    /\ wYoloModel = FALSE
    /\ wIsModelLoading = FALSE
    /\ wRunning = <<>>
    /\ wHistory = NoRequests
    /\ ghost = NoHistory
    /\ sw = SwOff

PageInit == InitWith("none")

Init == PageInit /\ pure = PureIdle

\* ------------------------------------------------- the page's state, as a value
\* The handlers of main.js call one another synchronously; each is an operator
\* from the page state before the call to the page state after it.
Page ==
    [useWebWorker |-> useWebWorker, yoloWorker |-> yoloWorker,
     yoloModel |-> yoloModel, isModelLoading |-> isModelLoading,
     modelLoadPromise |-> modelLoadPromise,
     performanceMetrics |-> performanceMetrics,
     detectionCache |-> detectionCache, listeners |-> listeners,
     calls |-> calls, tfLoad |-> tfLoad, loadWaiters |-> loadWaiters,
     microtasks |-> microtasks, inbox |-> inbox, wScript |-> wScript,
     ghost |-> ghost, stuck |-> FALSE]

Commit(s) ==
    /\ ~s.stuck
    /\ useWebWorker' = s.useWebWorker
    /\ yoloWorker' = s.yoloWorker
    /\ yoloModel' = s.yoloModel
    /\ isModelLoading' = s.isModelLoading
    /\ modelLoadPromise' = s.modelLoadPromise
    /\ performanceMetrics' = s.performanceMetrics
    /\ detectionCache' = s.detectionCache
    /\ listeners' = s.listeners
    /\ calls' = s.calls
    /\ tfLoad' = s.tfLoad
    /\ loadWaiters' = s.loadWaiters
    /\ microtasks' = s.microtasks
    /\ inbox' = s.inbox
    /\ wScript' = s.wScript
    /\ ghost' = s.ghost
    /\ pure' = pure
    /\ sw' = sw

InFlight(cl) == cl.pc \notin {"idle", "resolved", "rejected"}

\* ------------------------------------------------------------ result cache
OrElse(a, b) == IF a # 0 THEN a ELSE b

generateImageCacheKey(img) ==
    [src |-> SubSeq(img.src, 1, Min(Len(img.src), KeySrcLen)),
     width |-> OrElse(img.width, img.naturalWidth),
     height |-> OrElse(img.height, img.naturalHeight)]

CacheHas(cache, k) == \E i \in 1..Len(cache) : cache[i].key = k

CacheGet(cache, k) == cache[CHOOSE i \in 1..Len(cache) : cache[i].key = k].val

\* Map.prototype.set: an existing key keeps its position.
CacheSet(cache, k, v) ==
    IF CacheHas(cache, k)
    THEN [i \in 1..Len(cache) |->
            IF cache[i].key = k THEN [key |-> k, val |-> v] ELSE cache[i]]
    ELSE Append(cache, [key |-> k, val |-> v])

\* An insert that makes room only when the cache is over capacity.
CacheInsertOffByOne(cache, k, v) ==
    CacheSet(IF Len(cache) > MAX_CACHE_SIZE THEN Tail(cache) ELSE cache, k, v)

\* An insert that makes room by dropping the newest entry.
CacheInsertEvictsNewest(cache, k, v) ==
    CacheSet(IF Len(cache) >= MAX_CACHE_SIZE
             THEN SubSeq(cache, 1, Len(cache) - 1) ELSE cache, k, v)

\* detectMedicine, "Cache the results".
CacheInsert(cache, k, v) ==
    CacheSet(IF Len(cache) >= MAX_CACHE_SIZE THEN Tail(cache) ELSE cache, k, v)

\* History of the cache: the number of stores since the last reset, and for
\* each key the store that last added it while it was absent.
Stamp(g, cache, k) ==
    IF CacheHas(cache, k)
    THEN [g EXCEPT !.clock = @ + 1]
    ELSE [g EXCEPT !.clock = @ + 1,
                   !.stamps = {p \in @ : p.key # k}
                                 \cup {[key |-> k, at |-> g.clock + 1]}]

\* ------------------------------------------------------ settling a call
Resolve(s, c, dets) ==
    LET k == generateImageCacheKey(s.calls[c].img) IN
    [s EXCEPT !.ghost.last = [valid |-> TRUE, key |-> k, result |-> dets],
              !.ghost.misses = @ + (IF s.calls[c].missed THEN 1 ELSE 0),
              !.calls[c].pc = "resolved",
              !.calls[c].result = dets,
              !.calls[c].stored = /\ CacheHas(s.detectionCache, k)
                                  /\ CacheGet(s.detectionCache, k) = dets]

Reject(s, c, error) ==
    [s EXCEPT !.ghost.last.valid = (@ /\ c = PRELOAD),
              !.calls[c].pc = "rejected", !.calls[c].err = error]

\* ------------------------------------------------------------ model loading
FreeLoads(s) == {l \in LoadIds : s.tfLoad[l] = "unused"}

\* The caller of loadYOLOModel() got the model and goes on.
ModelReady(s, c) ==
    IF c = PRELOAD
    THEN [s EXCEPT !.calls[c].pc = "resolved"]
    ELSE [s EXCEPT !.calls[c].pc = "mainInfer"]

\* loadYOLOModel without the "if (modelLoadPromise)" test.
loadYOLOModelNoMemo(s, c) ==
    IF s.yoloModel # NULL THEN ModelReady(s, c)
    ELSE IF FreeLoads(s) = {} THEN [s EXCEPT !.stuck = TRUE]
    ELSE LET l == CHOOSE x \in FreeLoads(s) : \A y \in FreeLoads(s) : x <= y IN
         [s EXCEPT !.isModelLoading = TRUE,
                   !.modelLoadPromise = l,
                   !.tfLoad[l] = "pending",
                   !.loadWaiters[l] = <<c>>,
                   !.calls[c].pc = "mainLoad",
                   !.calls[c].waitingOn = l]

\* loadYOLOModel up to its first await.
loadYOLOModel(s, c) ==
    IF s.yoloModel # NULL THEN ModelReady(s, c)
    ELSE IF s.modelLoadPromise # NULL
    THEN [s EXCEPT !.calls[c].pc = "mainLoad",
                   !.calls[c].waitingOn = s.modelLoadPromise,
                   !.loadWaiters[s.modelLoadPromise] = Append(@, c)]
    ELSE IF FreeLoads(s) = {} THEN [s EXCEPT !.stuck = TRUE]
    ELSE LET l == CHOOSE x \in FreeLoads(s) : \A y \in FreeLoads(s) : x <= y IN
         [s EXCEPT !.isModelLoading = TRUE,
                   !.modelLoadPromise = l,
                   !.tfLoad[l] = "pending",
                   !.loadWaiters[l] = <<c>>,
                   !.calls[c].pc = "mainLoad",
                   !.calls[c].waitingOn = l]

IsLoader(s, c) ==
    /\ s.calls[c].waitingOn # NULL
    /\ Head(s.loadWaiters[s.calls[c].waitingOn]) = c

\* loadYOLOModel after "yoloModel = await modelLoadPromise" fulfilled.
LoadResolved(s, c) ==
    IF IsLoader(s, c)
    THEN [s EXCEPT !.yoloModel = s.calls[c].waitingOn, !.isModelLoading = FALSE]
    ELSE s

\* The catch block without "modelLoadPromise = null".
LoadRejectedKeepsPromise(s, c) ==
    IF IsLoader(s, c)
    THEN [s EXCEPT !.isModelLoading = FALSE]
    ELSE s

\* loadYOLOModel's catch block.
LoadRejected(s, c) ==
    IF IsLoader(s, c)
    THEN [s EXCEPT !.isModelLoading = FALSE, !.modelLoadPromise = NULL]
    ELSE s

\* --------------------------------------------------------- detectMedicine
detectMedicineMainThread(s, c) ==
    loadYOLOModel([s EXCEPT !.calls[c].mainRuns = @ + 1], c)

\* The try block testing the handle only.
UseWorkerPathIgnoresFlag(s) == s.yoloWorker # NULL

\* detectMedicine: "if (useWebWorker && yoloWorker)" in the try block.
UseWorkerPath(s) == s.useWebWorker /\ s.yoloWorker # NULL

\* The catch block with the handle test negated.
CatchRetriesNoHandle(s) == s.useWebWorker /\ s.yoloWorker = NULL

\* detectMedicine: "if (useWebWorker && yoloWorker)" in the catch block.
CatchRetries(s) == s.useWebWorker /\ s.yoloWorker # NULL

\* A catch block that runs the in-context attempt once more.
RetryFailedRunsAgain(s, c, error) ==
    IF s.calls[c].mainRuns < 2
    THEN detectMedicineMainThread(s, c)
    ELSE Reject(s, c, error)

\* An error thrown inside the catch block's retry leaves detectMedicine.
RetryFailed(s, c, error) == Reject(s, c, error)

\* detectMedicine's catch block.
CatchBlock(s, c, error) ==
    IF CatchRetries(s)
    THEN detectMedicineMainThread(
            [s EXCEPT !.useWebWorker = FALSE, !.calls[c].inRetry = TRUE], c)
    ELSE Reject(s, c, error)

\* An awaited step of call c threw.
Fail(s, c, error) ==
    IF s.calls[c].inRetry THEN RetryFailed(s, c, error)
    ELSE CatchBlock(s, c, error)

\* The same, with "totalInferenceTime = inferenceTime" in place of "+=".
StoreAndCountAssignsTime(s, c, dets, t) ==
    LET k == generateImageCacheKey(s.calls[c].img)
        m == s.performanceMetrics
        n == m.inferenceCount + 1
    IN [s EXCEPT !.detectionCache = CacheInsert(@, k, dets),
                 !.ghost = Stamp(@, s.detectionCache, k),
                 !.calls[c].puts = @ + 1,
                 !.performanceMetrics =
                     [m EXCEPT !.inferenceCount = n,
                               !.totalInferenceTime = t,
                               !.averageInferenceTime = [num |-> t, den |-> n]]]

\* detectMedicine from "Cache the results" to "return detections".
StoreAndCount(s, c, dets, t) ==
    LET k == generateImageCacheKey(s.calls[c].img)
        m == s.performanceMetrics
        n == m.inferenceCount + 1
        tot == m.totalInferenceTime + t
    IN [s EXCEPT !.detectionCache = CacheInsert(@, k, dets),
                 !.ghost = Stamp(@, s.detectionCache, k),
                 !.calls[c].puts = @ + 1,
                 !.performanceMetrics =
                     [m EXCEPT !.inferenceCount = n,
                               !.totalInferenceTime = tot,
                               !.averageInferenceTime = [num |-> tot, den |-> n]]]

\* A retry that stores its detections in the cache and counts nothing.
RetrySucceededStoresUncounted(s, c, dets, t) ==
    LET k == generateImageCacheKey(s.calls[c].img) IN
    [s EXCEPT !.detectionCache = CacheInsert(@, k, dets),
              !.ghost = Stamp(@, s.detectionCache, k),
              !.calls[c].puts = @ + 1]

\* What the retry in the catch block does with its detections.
RetrySucceeded(s, c, dets, t) == s

\* An awaited inference of call c produced dets.
Succeed(s, c, dets, t) ==
    IF s.calls[c].inRetry
    THEN Resolve(RetrySucceeded(s, c, dets, t), c, dets)
    ELSE Resolve(StoreAndCount(s, c, dets, t), c, dets)

\* detectMedicineWithWorker: the promise executor.
detectMedicineWithWorker(s, c, throws) ==
    IF throws
    THEN [s EXCEPT !.calls[c].pc = "workerRejected",
                   !.calls[c].err = "dispatch",
                   !.calls[c].workerFailed = TRUE,
                   !.microtasks = Append(@, c)]
    ELSE [s EXCEPT !.listeners = Append(@, c),
                   !.inbox = Append(@, [type |-> "infer", img |-> s.calls[c].img]),
                   !.calls[c].dispatches = @ + 1,
                   !.calls[c].pc = "awaitWorker"]

\* A cache check that also moves the entry to the most recent position.
CacheHitTouches(s, k) ==
    LET i == CHOOSE j \in 1..Len(s.detectionCache) : s.detectionCache[j].key = k IN
    [s EXCEPT !.performanceMetrics.cachedResults = @ + 1,
              !.detectionCache =
                  Append(SubSeq(@, 1, i - 1) \o SubSeq(@, i + 1, Len(@)), @[i])]

\* detectMedicine, "Check cache first": the state change of a hit.
CacheHit(s, k) == [s EXCEPT !.performanceMetrics.cachedResults = @ + 1]

\* detectMedicine up to its first await.
detectMedicine(s, c, throws) ==
    LET k == generateImageCacheKey(s.calls[c].img) IN
    IF CacheHas(s.detectionCache, k)
    THEN Resolve(CacheHit(s, k), c, CacheGet(s.detectionCache, k))
    ELSE LET s1 == [s EXCEPT !.calls[c].missed = TRUE] IN
         IF UseWorkerPath(s1)
         THEN detectMedicineWithWorker(
                 [s1 EXCEPT !.performanceMetrics.workerUsage = @ + 1], c, throws)
         ELSE detectMedicineMainThread(s1, c)

\* ------------------------------------------------------ worker bring-up
\* initYOLOWorker; ctorThrows: "new Worker(...)" throws.
initYOLOWorker(s, ctorThrows) ==
    IF ~s.useWebWorker \/ ~windowWorker
    THEN [s EXCEPT !.useWebWorker = FALSE, !.yoloWorker = NULL]
    ELSE IF ctorThrows
    THEN [s EXCEPT !.useWebWorker = FALSE, !.yoloWorker = NULL]
    ELSE [s EXCEPT !.yoloWorker = 1, !.wScript = "starting"]

preloadModel(s, onScanPage, ctorThrows) ==
    IF ~onScanPage THEN s
    ELSE LET s1 == IF s.useWebWorker THEN initYOLOWorker(s, ctorThrows) ELSE s IN
         IF s.useWebWorker /\ s1.yoloWorker # NULL
         THEN [s1 EXCEPT !.inbox = Append(@, [type |-> "load"])]
         ELSE loadYOLOModel(s1, PRELOAD)

\* detectMedicineMainThread when model.predict or processYOLOOutput throws:
\* the statements after them, the dispose calls, do not run, and the
\* tensors of the run stay live.
PredictThrew(s, c) == [s EXCEPT !.calls[c].undisposed = TRUE]

\* ===================================================== tasks of the page
PageIdle == pagePhase = "ready" /\ microtasks = <<>>

\* DOMContentLoaded: preloadModel().
Preload ==
    /\ pagePhase = "init"
    /\ pagePhase' = "ready"
    /\ \E onScanPage \in BOOLEAN, ctorThrows \in BOOLEAN :
          Commit(preloadModel(Page, onScanPage, ctorThrows))
    /\ UNCHANGED <<windowWorker, started, outbox, wYoloModel, wIsModelLoading, wRunning, wHistory>>

\* The state after detectMedicine(img) ran, as call c, up to its first await.
\* The call is "after" the last settled call when nothing else is in flight,
\* that call resolved, and it had the same cache key.
DetectCall(c, img, throws) ==
    LET busy == \E d \in Calls : InFlight(calls[d])
        follows == /\ ~busy
                   /\ ghost.last.valid
                   /\ ghost.last.key = generateImageCacheKey(img)
        cs == [d \in Callers |->
                 IF d = c
                 THEN [IdleCall EXCEPT
                         !.img = img,
                         !.overlapped = busy,
                         !.after = [valid |-> follows,
                                    result |-> IF follows THEN ghost.last.result
                                               ELSE NoDetections]]
                 ELSE IF d \in Calls /\ InFlight(calls[d])
                 THEN [calls[d] EXCEPT !.overlapped = TRUE]
                 ELSE calls[d]]
    IN detectMedicine([Page EXCEPT !.calls = cs,
                                   !.ghost.overlap = (@ \/ busy)], c, throws)

\* The call slot a new detect() takes: the lowest one not in flight.
FreeSlot(c) ==
    /\ ~InFlight(calls[c])
    /\ \A d \in Calls : d < c => InFlight(calls[d])

\* A click handler reaches "await detectMedicine(img)".
StartDetect ==
    /\ PageIdle
    /\ started < MaxStarts
    /\ \E c \in Calls, img \in Images, throws \in BOOLEAN :
          /\ FreeSlot(c)
          /\ Commit(DetectCall(c, img, throws))
    /\ started' = started + 1
    /\ UNCHANGED <<pagePhase, windowWorker, outbox, wYoloModel, wIsModelLoading, wRunning, wHistory>>

\* The next promise reaction of the page; elapsed: the performance.now()
\* differences a finishing call may measure.
RunMicrotaskIn(elapsed) ==
    /\ microtasks # <<>>
    /\ LET c == Head(microtasks)
           s == [Page EXCEPT !.microtasks = Tail(microtasks)]
           pc == calls[c].pc
       IN CASE pc = "workerResolved" ->
                 \E t \in elapsed : Commit(Succeed(s, c, calls[c].pending, t))
            [] pc = "workerRejected" ->
                 Commit(Fail(s, c, calls[c].err))
            [] pc = "loadResolved" ->
                 Commit(ModelReady(LoadResolved(s, c), c))
            [] pc = "loadRejected" ->
                 IF c = PRELOAD
                 THEN Commit(Reject(LoadRejected(s, c), c, "load"))
                 ELSE Commit(Fail(LoadRejected(s, c), c, "load"))
    /\ UNCHANGED <<pagePhase, windowWorker, started, outbox, wYoloModel,
                   wIsModelLoading, wRunning, wHistory>>

RunMicrotask == RunMicrotaskIn(0..MaxElapsed)

\* The tf.loadGraphModel promise l settles.
SettleLoad(l, outcome, pcAfter) ==
    /\ PageIdle
    /\ tfLoad[l] = "pending"
    /\ Commit([Page EXCEPT
          !.tfLoad[l] = outcome,
          !.calls = [c \in Callers |->
                       IF calls[c].pc = "mainLoad" /\ calls[c].waitingOn = l
                       THEN [calls[c] EXCEPT !.pc = pcAfter]
                       ELSE calls[c]],
          !.microtasks = loadWaiters[l]])
    /\ UNCHANGED <<pagePhase, windowWorker, started, outbox, wYoloModel,
                   wIsModelLoading, wRunning, wHistory>>

LoadDone == \E l \in LoadIds : SettleLoad(l, "fulfilled", "loadResolved")

LoadFail == \E l \in LoadIds : SettleLoad(l, "rejected", "loadRejected")

\* detectMedicineMainThread after the model is there: predict and
\* processYOLOOutput complete (ok) or throw.
MainInferDoneIn(elapsed) ==
    /\ PageIdle
    /\ \E c \in Calls :
          /\ calls[c].pc = "mainInfer"
          /\ \/ \E t \in elapsed :
                   Commit(Succeed(Page, c, DetectionsOf(calls[c].img), t))
             \/ Commit(Fail(PredictThrew(Page, c), c, "infer"))
    /\ UNCHANGED <<pagePhase, windowWorker, started, outbox, wYoloModel,
                   wIsModelLoading, wRunning, wHistory>>

MainInferDone == MainInferDoneIn(0..MaxElapsed)

\* handleResult without "yoloWorker.removeEventListener".
handleResultKeepsListener(s, msg) ==
    IF s.yoloWorker = NULL
    THEN s
    ELSE [s EXCEPT
            !.microtasks = s.listeners,
            !.calls = [c \in Callers |->
                IF \E i \in 1..Len(s.listeners) : s.listeners[i] = c
                THEN IF msg.success
                     THEN [s.calls[c] EXCEPT !.pc = "workerResolved",
                                             !.pending = msg.detections]
                     ELSE [s.calls[c] EXCEPT !.pc = "workerRejected",
                                             !.err = "worker",
                                             !.workerFailed = TRUE]
                ELSE s.calls[c]]]

\* handleResult of every registered listener, for one 'result' message.
handleResult(s, msg) ==
    IF s.yoloWorker = NULL
    THEN s   \* "yoloWorker.removeEventListener" throws inside the listener
    ELSE [s EXCEPT
            !.listeners = <<>>,
            !.microtasks = s.listeners,
            !.calls = [c \in Callers |->
                IF \E i \in 1..Len(s.listeners) : s.listeners[i] = c
                THEN IF msg.success
                     THEN [s.calls[c] EXCEPT !.pc = "workerResolved",
                                             !.pending = msg.detections]
                     ELSE [s.calls[c] EXCEPT !.pc = "workerRejected",
                                             !.err = "worker",
                                             !.workerFailed = TRUE]
                ELSE s.calls[c]]]

\* A 'message' event of the worker reaches the page.
DeliverMessage ==
    /\ PageIdle
    /\ outbox # <<>>
    /\ outbox' = Tail(outbox)
    /\ IF Head(outbox).type = "result"
       THEN Commit(handleResult(Page, Head(outbox)))
       ELSE Commit(Page)
    /\ UNCHANGED <<pagePhase, windowWorker, started, wYoloModel,
                   wIsModelLoading, wRunning, wHistory>>

\* The worker script fails to evaluate (importScripts) and the 'error'
\* listener of initYOLOWorker runs.
WorkerError ==
    /\ PageIdle
    /\ wScript = "starting"
    /\ Commit([Page EXCEPT !.wScript = "dead",
                           !.useWebWorker = FALSE,
                           !.yoloWorker = NULL])
    /\ UNCHANGED <<pagePhase, windowWorker, started, outbox, wYoloModel,
                   wIsModelLoading, wRunning, wHistory>>

\* (value * 100).toFixed(1) + '%' for value = num / den, as the number of
\* tenths of a percent nearest to it.
Percent(num, den) ==
    [text |-> "fixed", tenths |-> (2000 * num + den) \div (2 * den)]

\* The literal '0%'.
ZeroPercent == [text |-> "0%", tenths |-> 0]

\* getPerformanceMetrics with the hit rate taken over inferenceCount alone.
getPerformanceMetricsOverInferences(s) ==
    LET m == s.performanceMetrics IN
    [performanceMetrics |-> m,
     workerEnabled |-> s.useWebWorker,
     workerActive |-> s.yoloWorker # NULL,
     cacheSize |-> Len(s.detectionCache),
     workerUsagePercent |->
         IF m.inferenceCount > 0
         THEN Percent(m.workerUsage, m.inferenceCount) ELSE ZeroPercent,
     cacheHitRate |->
         IF m.inferenceCount > 0
         THEN Percent(m.cachedResults, m.inferenceCount) ELSE ZeroPercent]

\* window.getPerformanceMetrics(): the object it returns.
getPerformanceMetrics(s) ==
    LET m == s.performanceMetrics IN
    [performanceMetrics |-> m,
     workerEnabled |-> s.useWebWorker,
     workerActive |-> s.yoloWorker # NULL,
     cacheSize |-> Len(s.detectionCache),
     workerUsagePercent |->
         IF m.inferenceCount > 0
         THEN Percent(m.workerUsage, m.inferenceCount) ELSE ZeroPercent,
     cacheHitRate |->
         IF m.inferenceCount > 0
         THEN Percent(m.cachedResults, m.inferenceCount + m.cachedResults)
         ELSE ZeroPercent]

\* A reset that zeroes the counters and leaves the cache as it is.
resetCountersOnly ==
    /\ PageIdle
    /\ Commit([Page EXCEPT !.performanceMetrics = ZeroMetrics,
                           !.ghost = NoHistory])
    /\ UNCHANGED <<pagePhase, windowWorker, started, outbox, wYoloModel,
                   wIsModelLoading, wRunning, wHistory>>

\* window.resetPerformanceMetrics().
resetPerformanceMetrics ==
    /\ PageIdle
    /\ Commit([Page EXCEPT !.performanceMetrics = ZeroMetrics,
                           !.detectionCache = <<>>,
                           !.ghost = NoHistory])
    /\ UNCHANGED <<pagePhase, windowWorker, started, outbox, wYoloModel,
                   wIsModelLoading, wRunning, wHistory>>

\* ================================================== steps of the worker
pageVars == <<useWebWorker, yoloWorker, yoloModel, isModelLoading,
              modelLoadPromise, performanceMetrics, detectionCache, listeners,
              calls, tfLoad, loadWaiters, microtasks, pagePhase, windowWorker,
              started, ghost, pure, sw>>

WorkerBoot ==
    /\ wScript = "starting"
    /\ wScript' = "running"
    /\ UNCHANGED <<pageVars, inbox, outbox, wYoloModel, wIsModelLoading, wRunning, wHistory>>

\* The object runInference returns from its catch block; when predict or
\* processYOLOOutput threw, the dispose calls of the try block did not run.
FailedResult(error) ==
    [type |-> "result", success |-> FALSE, detections |-> NoDetections,
     error |-> error, undisposed |-> (error = "inference")]

\* A request was taken from the inbox.
Received(h, type) ==
    IF type = "load" THEN [h EXCEPT !.loads = @ + 1]
    ELSE [h EXCEPT !.infers = @ + 1]

\* A terminal response was posted.
Answered(h, type) ==
    IF type = "loaded" THEN [h EXCEPT !.loads = @ - 1]
    ELSE [h EXCEPT !.infers = @ - 1]

\* The listener with a runInference that does not test yoloModel: an 'infer'
\* received before the model is loaded is run like any other.
WorkerHandleRunsUnloaded ==
    /\ wScript = "running"
    /\ inbox # <<>>
    /\ inbox' = Tail(inbox)
    /\ LET msg == Head(inbox)
           got == Received(wHistory, msg.type) IN
       IF msg.type = "load"
       THEN IF wYoloModel
            THEN /\ outbox' = Append(outbox, [type |-> "loaded", success |-> TRUE])
                 /\ wHistory' = Answered(got, "loaded")
                 /\ UNCHANGED <<wIsModelLoading, wRunning>>
            ELSE IF wIsModelLoading
            THEN /\ outbox' = Append(outbox, [type |-> "loaded", success |-> FALSE])
                 /\ wHistory' = Answered(got, "loaded")
                 /\ UNCHANGED <<wIsModelLoading, wRunning>>
            ELSE /\ wIsModelLoading' = TRUE
                 /\ wHistory' = [got EXCEPT !.progress = 0]
                 /\ UNCHANGED <<outbox, wRunning>>
       ELSE /\ wRunning' = Append(wRunning, msg.img)
            /\ wHistory' = got
            /\ UNCHANGED <<outbox, wIsModelLoading>>
    /\ UNCHANGED <<pageVars, wScript, wYoloModel>>

\* The listener without a response to a 'load' that arrives during a load.
WorkerHandleSilentWhenBusy ==
    /\ wScript = "running"
    /\ inbox # <<>>
    /\ inbox' = Tail(inbox)
    /\ LET msg == Head(inbox)
           got == Received(wHistory, msg.type) IN
       IF msg.type = "load"
       THEN IF wYoloModel
            THEN /\ outbox' = Append(outbox, [type |-> "loaded", success |-> TRUE])
                 /\ wHistory' = Answered(got, "loaded")
                 /\ UNCHANGED <<wIsModelLoading, wRunning>>
            ELSE IF wIsModelLoading
            THEN /\ wHistory' = got
                 /\ UNCHANGED <<outbox, wIsModelLoading, wRunning>>
            ELSE /\ wIsModelLoading' = TRUE
                 /\ wHistory' = [got EXCEPT !.progress = 0]
                 /\ UNCHANGED <<outbox, wRunning>>
       ELSE IF ~wYoloModel
            THEN /\ outbox' = Append(outbox, FailedResult("Model not loaded"))
                 /\ wHistory' = Answered(got, "result")
                 /\ UNCHANGED <<wIsModelLoading, wRunning>>
            ELSE /\ wRunning' = Append(wRunning, msg.img)
                 /\ wHistory' = got
                 /\ UNCHANGED <<outbox, wIsModelLoading>>
    /\ UNCHANGED <<pageVars, wScript, wYoloModel>>

\* The worker's message listener up to its first real suspension.
WorkerHandle ==
    /\ wScript = "running"
    /\ inbox # <<>>
    /\ inbox' = Tail(inbox)
    /\ LET msg == Head(inbox)
           got == Received(wHistory, msg.type) IN
       IF msg.type = "load"
       THEN IF wYoloModel
            THEN /\ outbox' = Append(outbox, [type |-> "loaded", success |-> TRUE])
                 /\ wHistory' = Answered(got, "loaded")
                 /\ UNCHANGED <<wIsModelLoading, wRunning>>
            ELSE IF wIsModelLoading
            THEN /\ outbox' = Append(outbox, [type |-> "loaded", success |-> FALSE])
                 /\ wHistory' = Answered(got, "loaded")
                 /\ UNCHANGED <<wIsModelLoading, wRunning>>
            ELSE /\ wIsModelLoading' = TRUE
                 /\ wHistory' = [got EXCEPT !.progress = 0]
                 /\ UNCHANGED <<outbox, wRunning>>
       ELSE IF ~wYoloModel
            THEN /\ outbox' = Append(outbox, FailedResult("Model not loaded"))
                 /\ wHistory' = Answered(got, "result")
                 /\ UNCHANGED <<wIsModelLoading, wRunning>>
            ELSE /\ wRunning' = Append(wRunning, msg.img)
                 /\ wHistory' = got
                 /\ UNCHANGED <<outbox, wIsModelLoading>>
    /\ UNCHANGED <<pageVars, wScript, wYoloModel>>

\* onProgress of tf.loadGraphModel, called while the load is under way.
WorkerProgress ==
    /\ wIsModelLoading
    /\ wHistory.progress < MaxProgress
    /\ outbox' = Append(outbox, [type |-> "progress"])
    /\ wHistory' = [wHistory EXCEPT !.progress = @ + 1]
    /\ UNCHANGED <<pageVars, inbox, wScript, wYoloModel, wIsModelLoading,
                   wRunning>>

\* loadModel after "await tf.loadGraphModel".
WorkerLoadDone ==
    /\ wIsModelLoading
    /\ wIsModelLoading' = FALSE
    /\ \E ok \in BOOLEAN :
          /\ wYoloModel' = ok
          /\ outbox' = Append(outbox, [type |-> "loaded", success |-> ok])
    /\ wHistory' = Answered(wHistory, "loaded")
    /\ UNCHANGED <<pageVars, inbox, wScript, wRunning>>

RemoveAt(q, i) == SubSeq(q, 1, i - 1) \o SubSeq(q, i + 1, Len(q))

\* runInference completes for one request and the listener posts 'result'.
WorkerInferDone ==
    /\ \E i \in 1..Len(wRunning), ok \in BOOLEAN :
          /\ wRunning' = RemoveAt(wRunning, i)
          /\ outbox' = Append(outbox,
                IF ok THEN [type |-> "result", success |-> TRUE,
                            detections |-> DetectionsOf(wRunning[i]),
                            error |-> "none", undisposed |-> FALSE]
                ELSE FailedResult("inference"))
    /\ wHistory' = Answered(wHistory, "result")
    /\ UNCHANGED <<pageVars, inbox, wScript, wYoloModel, wIsModelLoading>>

Next ==
    \/ Preload
    \/ StartDetect
    \/ RunMicrotask
    \/ LoadDone
    \/ LoadFail
    \/ MainInferDone
    \/ DeliverMessage
    \/ WorkerError
    \/ resetPerformanceMetrics
    \/ WorkerBoot
    \/ WorkerHandle
    \/ WorkerLoadDone
    \/ WorkerInferDone

Spec == Init /\ [][Next]_vars

\* ---------------------------------------------- filling the result cache
\* The same page and worker, driven with more distinct images than the cache
\* holds: each detect() is for the first image again, or for the image after
\* the highest one that is cached or being detected.
CacheKeys == MAX_CACHE_SIZE + CacheExtra

CacheImages == {MkImage(i) : i \in 1..CacheKeys}

HighestImage ==
    LET ids == {detectionCache[i].key.src[1] : i \in 1..Len(detectionCache)} \cup {0}
    IN CHOOSE m \in ids : \A n \in ids : n <= m

CacheStartDetect ==
    /\ PageIdle
    /\ started < CacheKeys + 1
    /\ \A d \in Calls : ~InFlight(calls[d])
    /\ \E c \in Calls, img \in CacheImages :
          /\ img.id \in {1, HighestImage + 1}
          /\ FreeSlot(c)
          /\ Commit(DetectCall(c, img, FALSE))
    /\ started' = started + 1
    /\ UNCHANGED <<pagePhase, windowWorker, outbox, wYoloModel, wIsModelLoading, wRunning, wHistory>>

\* Every call of the cache-filling run measures the same elapsed time.
CacheRunMicrotask == RunMicrotaskIn({MaxElapsed})

CacheMainInferDone == MainInferDoneIn({MaxElapsed})

CacheNext ==
    \/ Preload
    \/ CacheStartDetect
    \/ CacheRunMicrotask
    \/ LoadDone
    \/ LoadFail
    \/ CacheMainInferDone
    \/ DeliverMessage
    \/ WorkerError
    \/ resetPerformanceMetrics
    \/ WorkerBoot
    \/ WorkerHandle
    \/ WorkerLoadDone
    \/ WorkerInferDone

CacheSpec == Init /\ [][CacheNext]_vars

\* --------------------------------- overlapping calls on one cache key
\* The same page and worker again: a detect() made while nothing is in
\* flight is for the image after the highest one cached, and once the cache
\* is full a detect() is also made while a call is in flight, for the image
\* of that call.
OverlapStartDetect ==
    /\ PageIdle
    /\ started < CacheKeys + 1
    /\ \E c \in Calls, img \in CacheImages :
          /\ IF \A d \in Calls : ~InFlight(calls[d])
             THEN img.id = HighestImage + 1
             ELSE /\ Len(detectionCache) = MAX_CACHE_SIZE
                  /\ \E d \in Calls : InFlight(calls[d]) /\ calls[d].img = img
          /\ FreeSlot(c)
          /\ Commit(DetectCall(c, img, FALSE))
    /\ started' = started + 1
    /\ UNCHANGED <<pagePhase, windowWorker, outbox, wYoloModel, wIsModelLoading, wRunning, wHistory>>

OverlapNext ==
    \/ Preload
    \/ OverlapStartDetect
    \/ CacheRunMicrotask
    \/ LoadDone
    \/ LoadFail
    \/ CacheMainInferDone
    \/ DeliverMessage
    \/ WorkerError
    \/ resetPerformanceMetrics
    \/ WorkerBoot
    \/ WorkerHandle
    \/ WorkerLoadDone
    \/ WorkerInferDone

OverlapSpec == Init /\ [][OverlapNext]_vars

\* ------------------------------------------- images with long source names
\* A source of KeySrcLen + 1 characters: KeySrcLen equal ones, then tail.
LongSrc(tail) == [i \in 1..KeySrcLen + 1 |-> IF i <= KeySrcLen THEN 0 ELSE tail]

\* Two images whose sources differ only after character KeySrcLen, with
\* equal dimensions, and a third with the first one's source and another
\* width.
KeyImages ==
    {[MkImage(1) EXCEPT !.src = LongSrc(1)],
     [MkImage(2) EXCEPT !.src = LongSrc(2)],
     [MkImage(3) EXCEPT !.src = LongSrc(1), !.width = 2]}

\* A click handler reaches "await detectMedicine(img)" while no other call
\* is in flight.
KeyStartDetect ==
    /\ PageIdle
    /\ started < MaxStarts
    /\ \A d \in Calls : ~InFlight(calls[d])
    /\ \E c \in Calls, img \in KeyImages, throws \in BOOLEAN :
          /\ FreeSlot(c)
          /\ Commit(DetectCall(c, img, throws))
    /\ started' = started + 1
    /\ UNCHANGED <<pagePhase, windowWorker, outbox, wYoloModel, wIsModelLoading, wRunning, wHistory>>

KeyNext ==
    \/ Preload
    \/ KeyStartDetect
    \/ RunMicrotask
    \/ LoadDone
    \/ LoadFail
    \/ MainInferDone
    \/ DeliverMessage
    \/ WorkerError
    \/ resetPerformanceMetrics
    \/ WorkerBoot
    \/ WorkerHandle
    \/ WorkerLoadDone
    \/ WorkerInferDone

KeySpec == Init /\ [][KeyNext]_vars

\* ------------------------------------------- non-maximum suppression, IoU
\* Numbers are integers; a quotient is kept as numerator and denominator,
\* and a denominator of 0 stands for the NaN that 0 / 0 yields.  Indices
\* are 1-based here and 0-based in the program.

\* calculateIoU of the page script.
calculateIoU(box1, box2) ==
    LET x1 == Max(box1.x, box2.x)
        y1 == Max(box1.y, box2.y)
        x2 == Min(box1.x + box1.width, box2.x + box2.width)
        y2 == Min(box1.y + box1.height, box2.y + box2.height)
        intersection == Max(0, x2 - x1) * Max(0, y2 - y1)
        area1 == box1.width * box1.height
        area2 == box2.width * box2.height
        union == area1 + area2 - intersection
    IN  [num |-> intersection, den |-> union]

\* calculateIoU of the worker script.
workerCalculateIoU(box1, box2) ==
    LET x1 == Max(box1.x, box2.x)
        y1 == Max(box1.y, box2.y)
        x2 == Min(box1.x + box1.width, box2.x + box2.width)
        y2 == Min(box1.y + box1.height, box2.y + box2.height)
        intersection == Max(0, x2 - x1) * Max(0, y2 - y1)
        area1 == box1.width * box1.height
        area2 == box2.width * box2.height
        union == area1 + area2 - intersection
    IN  [num |-> intersection, den |-> union]

\* iou > threshold; every comparison with NaN is false.
IoUGreater(iou, threshold) ==
    /\ iou.den # 0
    /\ iou.num * threshold.den > threshold.num * iou.den

\* scores.map(...).sort((a, b) => b.score - a.score).map(item => item.idx)
\* with the reversed comparison: ascending scores.
SortedIndicesAscending(scores) ==
    LET n == Len(scores)
        Before(j, i) == \/ scores[j] < scores[i]
                        \/ scores[j] = scores[i] /\ j < i
        Rank(i) == 1 + Cardinality({j \in 1..n : Before(j, i)})
    IN  [p \in 1..n |-> CHOOSE i \in 1..n : Rank(i) = p]

\* The same sort, with equal scores placed in reverse input order.
SortedIndicesTiesReversed(scores) ==
    LET n == Len(scores)
        Before(j, i) == \/ scores[j] > scores[i]
                        \/ scores[j] = scores[i] /\ j > i
        Rank(i) == 1 + Cardinality({j \in 1..n : Before(j, i)})
    IN  [p \in 1..n |-> CHOOSE i \in 1..n : Rank(i) = p]

\* scores.map(...).sort((a, b) => b.score - a.score).map(item => item.idx):
\* descending scores; Array.prototype.sort is stable, so equal scores keep
\* their input order.
SortedIndices(scores) ==
    LET n == Len(scores)
        Before(j, i) == \/ scores[j] > scores[i]
                        \/ scores[j] = scores[i] /\ j < i
        Rank(i) == 1 + Cardinality({j \in 1..n : Before(j, i)})
    IN  [p \in 1..n |-> CHOOSE i \in 1..n : Rank(i) = p]

\* The loop condition with <= in place of <.
KeepSelectingOffByOne(indices, selected, maxDetections) ==
    Len(indices) > 0 /\ Len(selected) <= maxDetections

\* while (indices.length > 0 && selected.length < maxDetections)
KeepSelecting(indices, selected, maxDetections) ==
    Len(indices) > 0 /\ Len(selected) < maxDetections

\* indices.forEach((idx, i) => { ... indices.splice(i, 1) ... }) of the page
\* script.  forEach visits positions 1..len0 of the array as it is when the
\* position is reached: after a splice at position k the element that
\* followed moves to k and is not visited, and positions past the shrunken
\* end are skipped.
RECURSIVE ForEachSplice(_, _, _, _, _, _)
ForEachSplice(indices, k, len0, boxes, currentBox, threshold) ==
    IF k > len0 THEN indices
    ELSE IF k > Len(indices)
    THEN ForEachSplice(indices, k + 1, len0, boxes, currentBox, threshold)
    ELSE IF IoUGreater(calculateIoU(currentBox, boxes[indices[k]]), threshold)
    THEN ForEachSplice(RemoveAt(indices, k), k + 1, len0, boxes, currentBox,
                       threshold)
    ELSE ForEachSplice(indices, k + 1, len0, boxes, currentBox, threshold)

RECURSIVE SelectLoop(_, _, _, _, _)
SelectLoop(indices, selected, boxes, threshold, maxDetections) ==
    IF ~KeepSelecting(indices, selected, maxDetections) THEN selected
    ELSE LET currentIdx == Head(indices)
             rest == Tail(indices)
         IN  SelectLoop(ForEachSplice(rest, 1, Len(rest), boxes,
                                      boxes[currentIdx], threshold),
                        Append(selected, currentIdx),
                        boxes, threshold, maxDetections)

\* nonMaxSuppression of the page script.
nonMaxSuppression(boxes, scores, threshold, maxDetections) ==
    SelectLoop(SortedIndices(scores), <<>>, boxes, threshold, maxDetections)

\* for (let i = indices.length - 1; i >= 0; i--) { ... splice(i, 1) ... } of
\* the worker script: every position is visited once, last to first.
RECURSIVE BackwardSplice(_, _, _, _, _)
BackwardSplice(indices, i, boxes, currentBox, threshold) ==
    IF i < 1 THEN indices
    ELSE IF IoUGreater(workerCalculateIoU(currentBox, boxes[indices[i]]),
                       threshold)
    THEN BackwardSplice(RemoveAt(indices, i), i - 1, boxes, currentBox,
                        threshold)
    ELSE BackwardSplice(indices, i - 1, boxes, currentBox, threshold)

RECURSIVE WorkerSelectLoop(_, _, _, _, _)
WorkerSelectLoop(indices, selected, boxes, threshold, maxDetections) ==
    IF ~KeepSelecting(indices, selected, maxDetections) THEN selected
    ELSE LET currentIdx == Head(indices)
             rest == Tail(indices)
         IN  WorkerSelectLoop(BackwardSplice(rest, Len(rest), boxes,
                                             boxes[currentIdx], threshold),
                              Append(selected, currentIdx),
                              boxes, threshold, maxDetections)

\* nonMaxSuppression of the worker script.
workerNonMaxSuppression(boxes, scores, threshold, maxDetections) ==
    WorkerSelectLoop(SortedIndices(scores), <<>>, boxes, threshold,
                     maxDetections)

\* Inputs: up to MaxCand boxes laid along one axis (all along x, or all
\* along y), each with an origin, an extent that may be 0, and a score.
Shapes == (0..MaxCoord) \X (0..MaxSize) \X (1..MaxScore)

BoxOf(shape, vertical) ==
    IF vertical
    THEN [x |-> 0, y |-> shape[1], width |-> 1, height |-> shape[2]]
    ELSE [x |-> shape[1], y |-> 0, width |-> shape[2], height |-> 1]

MaxDetectionsChoices == (0..2) \cup {MAX_DETECTIONS}

PureInput(shapes, vertical, m) ==
    [PureIdle EXCEPT
        !.phase = "input",
        !.boxes = [i \in DOMAIN shapes |-> BoxOf(shapes[i], vertical)],
        !.scores = [i \in DOMAIN shapes |-> shapes[i][3]],
        !.maxDetections = m]

pipelineVars ==
    <<useWebWorker, yoloWorker, yoloModel, isModelLoading, modelLoadPromise,
      performanceMetrics, detectionCache, listeners, calls, tfLoad,
      loadWaiters, microtasks, pagePhase, windowWorker, started, inbox,
      outbox, wScript, wYoloModel, wIsModelLoading, wRunning, wHistory,
      ghost, sw>>

PureInit ==
    /\ PageInit
    /\ windowWorker = TRUE
    /\ \E n \in 0..MaxCand :
          \E shapes \in [1..n -> Shapes], vertical \in BOOLEAN,
             m \in MaxDetectionsChoices :
              pure = PureInput(shapes, vertical, m)

\* The page script's nonMaxSuppression applied to the input.
PureNmsMain ==
    /\ pure.phase = "input"
    /\ pure' = [pure EXCEPT
                  !.phase = "main",
                  !.main = nonMaxSuppression(pure.boxes, pure.scores,
                                             iouThreshold,
                                             pure.maxDetections)]
    /\ UNCHANGED pipelineVars

\* The worker script's nonMaxSuppression applied to the same input.
PureNmsWorker ==
    /\ pure.phase = "main"
    /\ pure' = [pure EXCEPT
                  !.phase = "worker",
                  !.worker = workerNonMaxSuppression(pure.boxes, pure.scores,
                                                     iouThreshold,
                                                     pure.maxDetections)]
    /\ UNCHANGED pipelineVars

\* Both calculateIoU functions applied to the first two boxes of the input.
PureIoU ==
    /\ pure.phase = "worker"
    /\ Len(pure.boxes) >= 2
    /\ pure' = [pure EXCEPT
                  !.phase = "iou",
                  !.iou = calculateIoU(pure.boxes[1], pure.boxes[2]),
                  !.workerIou = workerCalculateIoU(pure.boxes[1],
                                                   pure.boxes[2])]
    /\ UNCHANGED pipelineVars

PureNext == PureNmsMain \/ PureNmsWorker \/ PureIoU

PureSpec == PureInit /\ [][PureNext]_vars

\* ------------------------------------------------- decoding the raw output
\* Confidences and scores are in hundredths.  Raw box values are in units
\* of 1 / MaxRaw, and the pixel values of a detection are kept multiplied by
\* 2 * MaxRaw, so that (x - w / 2) * imgWidth is an integer.  Classes are
\* numbered from 0 as in the program.
Confidences == {0, 20, 25, 90}

\* The class scan with >= in place of >: the last maximum wins.
RECURSIVE ClassScanLastMax(_, _, _, _)
ClassScanLastMax(conf, c, maxScore, maxClass) ==
    IF c >= Len(conf) THEN [score |-> maxScore, class |-> maxClass]
    ELSE IF conf[c + 1] >= maxScore
    THEN ClassScanLastMax(conf, c + 1, conf[c + 1], c)
    ELSE ClassScanLastMax(conf, c + 1, maxScore, maxClass)

\* for (let c = 0; c < numClasses; c++) { if (score > maxScore) ... },
\* from class c on, with the running maxScore and maxClass.
RECURSIVE ClassScan(_, _, _, _)
ClassScan(conf, c, maxScore, maxClass) ==
    IF c >= Len(conf) THEN [score |-> maxScore, class |-> maxClass]
    ELSE IF conf[c + 1] > maxScore
    THEN ClassScan(conf, c + 1, conf[c + 1], c)
    ELSE ClassScan(conf, c + 1, maxScore, maxClass)

\* The threshold test with >= in place of >.
KeepAnchorAtThreshold(maxScore) == maxScore >= scoreThreshold

\* The threshold test against 0.
KeepAnchorAboveZero(maxScore) == maxScore > 0

\* if (maxScore > MODEL_CONFIG.scoreThreshold)
KeepAnchor(maxScore) == maxScore > scoreThreshold

\* The pushed detection with its corner clamped to the image.
ToDetectionClamped(a, scan, imgWidth, imgHeight) ==
    [x |-> Max(0, (2 * a.x - a.w) * imgWidth),
     y |-> Max(0, (2 * a.y - a.h) * imgHeight),
     width |-> 2 * a.w * imgWidth,
     height |-> 2 * a.h * imgHeight,
     score |-> scan.score, class |-> scan.class]

\* detections.push({ x: (x - w / 2) * imgWidth, ... })
ToDetection(a, scan, imgWidth, imgHeight) ==
    [x |-> (2 * a.x - a.w) * imgWidth,
     y |-> (2 * a.y - a.h) * imgHeight,
     width |-> 2 * a.w * imgWidth,
     height |-> 2 * a.h * imgHeight,
     score |-> scan.score, class |-> scan.class]

\* for (let i = 0; i < numDetections; i++) { ... }, from anchor i on.
RECURSIVE DecodeAnchors(_, _, _, _, _)
DecodeAnchors(output, i, imgWidth, imgHeight, detections) ==
    IF i > Len(output) THEN detections
    ELSE LET scan == ClassScan(output[i].conf, 0, 0, 0) IN
         DecodeAnchors(output, i + 1, imgWidth, imgHeight,
             IF KeepAnchor(scan.score)
             THEN Append(detections,
                         ToDetection(output[i], scan, imgWidth, imgHeight))
             ELSE detections)

boxes_nms(detections) ==
    [k \in 1..Len(detections) |->
        [x |-> detections[k].x, y |-> detections[k].y,
         width |-> detections[k].width, height |-> detections[k].height]]

scores_nms(detections) == [k \in 1..Len(detections) |-> detections[k].score]

\* processYOLOOutput of the page script: the detections before suppression
\* and the list it returns.
processYOLOOutput(output, imgWidth, imgHeight) ==
    LET detections == DecodeAnchors(output, 1, imgWidth, imgHeight, <<>>)
        selectedIndices ==
            nonMaxSuppression(boxes_nms(detections), scores_nms(detections),
                              iouThreshold, MAX_DETECTIONS)
    IN  [detections |-> detections,
         finalDetections |->
             [k \in 1..Len(selectedIndices) |-> detections[selectedIndices[k]]]]

\* processYOLOOutput of the worker script.
workerProcessYOLOOutput(output, imgWidth, imgHeight) ==
    LET detections == DecodeAnchors(output, 1, imgWidth, imgHeight, <<>>)
        selectedIndices ==
            workerNonMaxSuppression(boxes_nms(detections),
                                    scores_nms(detections),
                                    iouThreshold, MAX_DETECTIONS)
    IN  [detections |-> detections,
         finalDetections |->
             [k \in 1..Len(selectedIndices) |-> detections[selectedIndices[k]]]]

\* Raw anchors: centre and size along x drawn freely; to keep the set small
\* the values along y are the same two numbers exchanged.
RawAnchors ==
    {[x |-> cx, y |-> w, w |-> w, h |-> cx, conf |-> conf] :
        cx \in 0..MaxRaw, w \in 0..MaxRaw,
        conf \in [1..NumClasses -> Confidences]}

DecodeInput(output, imgWidth, imgHeight) ==
    [phase |-> "raw", output |-> output,
     imgWidth |-> imgWidth, imgHeight |-> imgHeight,
     detections |-> <<>>, finalDetections |-> <<>>,
     workerDetections |-> <<>>, workerFinalDetections |-> <<>>]

DecodeInit ==
    /\ PageInit
    /\ windowWorker = TRUE
    /\ \E n \in 0..MaxAnchors :
          \E output \in [1..n -> RawAnchors],
             imgWidth \in {0, MaxDim}, imgHeight \in {0, MaxDim + 1} :
              pure = DecodeInput(output, imgWidth, imgHeight)

\* processYOLOOutput of the page script applied to the raw output.
DecodeMain ==
    /\ pure.phase = "raw"
    /\ LET r == processYOLOOutput(pure.output, pure.imgWidth, pure.imgHeight)
       IN  pure' = [pure EXCEPT !.phase = "decoded",
                                !.detections = r.detections,
                                !.finalDetections = r.finalDetections]
    /\ UNCHANGED pipelineVars

\* processYOLOOutput of the worker script applied to the same raw output.
DecodeWorker ==
    /\ pure.phase = "decoded"
    /\ LET r == workerProcessYOLOOutput(pure.output, pure.imgWidth,
                                        pure.imgHeight)
       IN  pure' = [pure EXCEPT !.phase = "workerDecoded",
                                !.workerDetections = r.detections,
                                !.workerFinalDetections = r.finalDetections]
    /\ UNCHANGED pipelineVars

DecodeNext == DecodeMain \/ DecodeWorker

DecodeSpec == DecodeInit /\ [][DecodeNext]_vars


\* ----------------------------------------------------- the worker on its own
\* The worker script with any client: up to MaxRequests 'load' and 'infer'
\* messages are posted to it in any order and at any time; the page's own
\* variables are not used.
WorkerInit == InitWith("starting") /\ windowWorker = TRUE /\ pure = PureIdle

\* postMessage({ type: 'load' }) or postMessage({ type: 'infer', ... }).
WorkerPost ==
    /\ started < MaxRequests
    /\ started' = started + 1
    /\ \E msg \in {[type |-> "load"], [type |-> "infer", img |-> MkImage(1)]} :
          inbox' = Append(inbox, msg)
    /\ UNCHANGED <<useWebWorker, yoloWorker, yoloModel, isModelLoading,
                   modelLoadPromise, performanceMetrics, detectionCache,
                   listeners, calls, tfLoad, loadWaiters, microtasks,
                   pagePhase, windowWorker, ghost, pure, sw, outbox, wScript,
                   wYoloModel, wIsModelLoading, wRunning, wHistory>>

\* The client's 'message' listener takes the next message of the worker.
WorkerDrain ==
    /\ outbox # <<>>
    /\ outbox' = Tail(outbox)
    /\ UNCHANGED <<pageVars, inbox, wScript, wYoloModel, wIsModelLoading,
                   wRunning, wHistory>>

WorkerNext ==
    \/ WorkerBoot
    \/ WorkerPost
    \/ WorkerHandle
    \/ WorkerProgress
    \/ WorkerLoadDone
    \/ WorkerInferDone
    \/ WorkerDrain

WorkerSpec == WorkerInit /\ [][WorkerNext]_vars

\* The worker script comes up, handles every message it is sent, and its
\* tf load and its inferences settle.
WorkerFairSpec ==
    /\ WorkerSpec
    /\ WF_vars(WorkerBoot)
    /\ WF_vars(WorkerHandle)
    /\ WF_vars(WorkerLoadDone)
    /\ WF_vars(WorkerInferDone)

\* Fairness: every pending task or reaction of the page and every step of
\* the worker is eventually taken; the worker script either comes up or
\* fails; a tf load and an in-context inference eventually settle.  Only
\* the user's clicks (StartDetect, resetPerformanceMetrics) are not forced.
FairSpec ==
    /\ Spec
    /\ WF_vars(Preload)
    /\ WF_vars(RunMicrotask)
    /\ WF_vars(DeliverMessage)
    /\ WF_vars(LoadDone \/ LoadFail)
    /\ WF_vars(MainInferDone)
    /\ WF_vars(WorkerBoot \/ WorkerError)
    /\ WF_vars(WorkerHandle)
    /\ WF_vars(WorkerLoadDone)
    /\ WF_vars(WorkerInferDone)

\* ===================================================== the service worker
\* sw.js: const MODEL_FILES.
MODEL_FILES ==
    {"/static/model.json",
     "/static/group1-shard1of11.bin", "/static/group1-shard2of11.bin",
     "/static/group1-shard3of11.bin", "/static/group1-shard4of11.bin",
     "/static/group1-shard5of11.bin", "/static/group1-shard6of11.bin",
     "/static/group1-shard7of11.bin", "/static/group1-shard8of11.bin",
     "/static/group1-shard9of11.bin", "/static/group1-shard10of11.bin",
     "/static/group1-shard11of11.bin"}

FetchSlots == 1..MaxPending

\* A request URL of the page's origin: its pathname and its query string.
Url(path, search) == [path |-> path, search |-> search]

\* The requests the controlled pages make: every model file, a model file
\* with a query string, and paths that are not model files.
OtherPaths == {"/scan", "/static/js/main.js", "/static/model.json.bak"}

FetchRequests ==
    {Url(p, "") : p \in MODEL_FILES \cup OtherPaths}
        \cup {Url("/static/model.json", "?v=2")}

\* What the network can answer to a request, and a fetch() that rejects.
NetworkAnswers(req) ==
    {[status |-> 200, type |-> "basic", url |-> req],
     [status |-> 404, type |-> "basic", url |-> req],
     [status |-> 200, type |-> "cors", url |-> req]}

NetworkError == [status |-> 0, type |-> "error", url |-> NoRequest]

\* fetch listener: MODEL_FILES.some(file => url.pathname === file).
isModelFile(req) == \E file \in MODEL_FILES : req.path = file

\* A test of the status alone.
CacheableAnyType(r) == r.status = 200

\* fetch listener: the negation of
\* "!response || response.status !== 200 || response.type !== 'basic'".
Cacheable(r) == ~(r = NoResponse \/ r.status # 200 \/ r.type # "basic")

\* caches.match(event.request): the entries stored under the request's URL.
CacheMatch(cache, req) == {en \in cache : en.url = req}

\* cache.put(event.request, responseToCache).
CachePut(cache, req, r) ==
    {en \in cache : en.url # req} \cup {[url |-> req, resp |-> r]}

\* install listener: what cache.addAll(MODEL_FILES) stores when it succeeds.
Precached ==
    {[url |-> Url(p, ""),
      resp |-> [status |-> 200, type |-> "basic", url |-> Url(p, "")]] :
        p \in MODEL_FILES}

swFrame ==
    <<useWebWorker, yoloWorker, yoloModel, isModelLoading, modelLoadPromise,
      performanceMetrics, detectionCache, listeners, calls, tfLoad,
      loadWaiters, microtasks, pagePhase, windowWorker, started, inbox,
      outbox, wScript, wYoloModel, wIsModelLoading, wRunning, wHistory,
      ghost, pure>>

\* registerServiceWorker, then the install listener: cache.addAll stores
\* all the model files or, when it rejects, none.
SwInstall ==
    /\ sw.phase = "off"
    /\ \E ok \in BOOLEAN :
          sw' = [sw EXCEPT !.phase = "installed",
                           !.cache = IF ok THEN Precached ELSE {}]
    /\ UNCHANGED swFrame

\* The activate listener: this cache is kept, and the pages are claimed.
SwActivate ==
    /\ sw.phase = "installed"
    /\ sw' = [sw EXCEPT !.phase = "active"]
    /\ UNCHANGED swFrame

\* The slot a new fetch event takes: the lowest one whose event is over.
FetchOver(ev) == ev.pc \in {"idle", "done"} /\ ~ev.putPending

FreeFetchSlot(e) ==
    /\ FetchOver(sw.events[e])
    /\ \A d \in FetchSlots : d < e => ~FetchOver(sw.events[d])

\* The fetch listener, up to event.respondWith(caches.match(...)) or, for
\* a request that is no model file, to its end.
SwFetch ==
    /\ sw.phase = "active"
    /\ sw.fetched < MaxFetches
    /\ \E e \in FetchSlots, req \in FetchRequests :
          /\ FreeFetchSlot(e)
          /\ sw' = [sw EXCEPT
                !.fetched = @ + 1,
                !.events[e] =
                    IF isModelFile(req)
                    THEN [IdleFetch EXCEPT !.pc = "matching", !.req = req,
                                           !.responded = TRUE]
                    ELSE [IdleFetch EXCEPT !.pc = "browser", !.req = req]]
    /\ UNCHANGED swFrame

\* caches.match(...).then(cachedResponse => ...): return the cached
\* response, or call fetch(event.request).
SwCacheMatched ==
    /\ \E e \in FetchSlots :
          /\ sw.events[e].pc = "matching"
          /\ LET hit == CacheMatch(sw.cache, sw.events[e].req) IN
             sw' = [sw EXCEPT !.events[e] =
                      IF hit # {}
                      THEN [@ EXCEPT !.pc = "done",
                                     !.answer = (CHOOSE en \in hit : TRUE).resp,
                                     !.fromCache = TRUE]
                      ELSE [@ EXCEPT !.pc = "fetching",
                                     !.netFetches = @ + 1]]
    /\ UNCHANGED swFrame

\* fetch(event.request).then(response => ...).catch(error => ...): the
\* response is returned, after scheduling cache.put of its clone when it is
\* cacheable; a rejection is logged and thrown again.
SwNetworkDone ==
    /\ \E e \in FetchSlots :
          /\ sw.events[e].pc = "fetching"
          /\ \E r \in NetworkAnswers(sw.events[e].req) \cup {NetworkError} :
                sw' = [sw EXCEPT !.events[e] =
                         [@ EXCEPT !.pc = "done", !.net = r, !.answer = r,
                                   !.putPending = (r # NetworkError
                                                     /\ Cacheable(r))]]
    /\ UNCHANGED swFrame

\* caches.open(CACHE_NAME).then(cache => cache.put(...)).
SwCachePut ==
    /\ \E e \in FetchSlots :
          /\ sw.events[e].putPending
          /\ sw' = [sw EXCEPT
                !.cache = CachePut(@, sw.events[e].req, sw.events[e].net),
                !.events[e].putPending = FALSE,
                !.events[e].stored = TRUE]
    /\ UNCHANGED swFrame

\* A request the listener did not answer: the browser fetches it itself.
BrowserFetchDone ==
    /\ \E e \in FetchSlots :
          /\ sw.events[e].pc = "browser"
          /\ \E r \in NetworkAnswers(sw.events[e].req) \cup {NetworkError} :
                sw' = [sw EXCEPT !.events[e] =
                         [@ EXCEPT !.pc = "done", !.answer = r]]
    /\ UNCHANGED swFrame

SwNext ==
    \/ SwInstall
    \/ SwActivate
    \/ SwFetch
    \/ SwCacheMatched
    \/ SwNetworkDone
    \/ SwCachePut
    \/ BrowserFetchDone

SwInit == PageInit /\ windowWorker = TRUE /\ pure = PureIdle

SwSpec == SwInit /\ [][SwNext]_vars

\* ======================================================== properties
Settled(c) == calls[c].pc \in {"resolved", "rejected"}

\* C1: a detect() call that was never concurrent with another one and whose
\* worker attempt failed (failed 'result', or the dispatch threw) has been
\* re-run by detectMedicineMainThread exactly once; when it resolves it
\* carries the detections of its own image, and when it rejects the error
\* is the retry's, never the worker's.
C1_SingleCallFallsBack ==
    \A c \in Calls :
        (/\ calls[c].workerFailed
         /\ ~calls[c].overlapped
         /\ calls[c].pc # "workerRejected")
        => /\ calls[c].inRetry
           /\ calls[c].mainRuns = 1
           /\ calls[c].pc = "resolved" => calls[c].result = DetectionsOf(calls[c].img)
           /\ calls[c].pc = "rejected" => calls[c].err \notin {"worker", "dispatch"}

C1_Witness ==
    \E c \in Calls :
        /\ calls[c].workerFailed
        /\ ~calls[c].overlapped
        /\ calls[c].dispatches = 1
        /\ calls[c].err = "worker"
        /\ calls[c].pc = "resolved"
        /\ calls[c].result = DetectionsOf(calls[c].img)

\* C2: once useWebWorker is false it stays false, and no step taken while it
\* is false posts an 'infer' message to the worker.
InferPosted ==
    /\ Len(inbox') > Len(inbox)
    /\ inbox'[Len(inbox')].type = "infer"

C2_DowngradePermanent ==
    [][(~useWebWorker) => (~useWebWorker' /\ ~InferPosted)]_vars

\* A later call served in the caller context although the Worker handle is
\* still there: the downgrade came from a failed worker attempt.
C2_Witness ==
    \E c \in Calls :
        /\ ~useWebWorker
        /\ yoloWorker # NULL
        /\ calls[c].missed
        /\ calls[c].dispatches = 0
        /\ ~calls[c].workerFailed
        /\ calls[c].mainRuns = 1
        /\ calls[c].pc = "resolved"

\* C3: every detect() call waiting for the worker eventually settles.
C3_DispatchedCallSettles ==
    \A c \in Calls : (calls[c].pc = "awaitWorker") ~> Settled(c)

\* C4: at most one 'infer' request is outstanding on the worker.
InferCount(q) == Cardinality({i \in 1..Len(q) : q[i].type = "infer"})

ResultCount(q) == Cardinality({i \in 1..Len(q) : q[i].type = "result"})

OutstandingInfers == InferCount(inbox) + Len(wRunning) + ResultCount(outbox)

C4_OneInferOutstanding == OutstandingInfers <= 1

\* C5: a call that missed the cache and resolved returns the detections of
\* its own image.
C5_ResultCorrelated ==
    \A c \in Calls :
        (calls[c].pc = "resolved" /\ calls[c].missed)
        => calls[c].result = DetectionsOf(calls[c].img)

\* C6: of two calls that were both waiting on the worker when it reported a
\* failed result, each has been retried in the caller context.
C6_BothRetried ==
    \A c \in Calls, d \in Calls :
        (/\ c # d
         /\ calls[c].workerFailed /\ calls[c].dispatches = 1
         /\ calls[d].workerFailed /\ calls[d].dispatches = 1
         /\ calls[c].pc # "workerRejected"
         /\ calls[d].pc # "workerRejected")
        => calls[c].inRetry /\ calls[d].inRetry

\* C7: per detect() call there is at most one worker dispatch and at most
\* one in-context run after a failed worker attempt; when that run fails too
\* the call rejects with the error of the run.
C7_NoThirdAttempt ==
    \A c \in Calls :
        /\ calls[c].dispatches <= 1
        /\ calls[c].workerFailed => calls[c].mainRuns <= 1
        /\ (calls[c].inRetry /\ calls[c].pc = "rejected")
              => calls[c].err \in {"infer", "load"}

C7_Witness ==
    \E c \in Calls :
        /\ calls[c].workerFailed
        /\ calls[c].dispatches = 1
        /\ calls[c].inRetry
        /\ calls[c].mainRuns = 1
        /\ calls[c].pc = "rejected"
        /\ calls[c].err = "infer"

\* C8: at most one tf.loadGraphModel promise is pending, and once yoloModel
\* is set no load is pending and none has been started after the one that
\* produced it.
PendingLoads == {l \in LoadIds : tfLoad[l] = "pending"}

C8_SingleLoad ==
    /\ Cardinality(PendingLoads) <= 1
    /\ yoloModel # NULL =>
          /\ PendingLoads = {}
          /\ \A l \in LoadIds : l > yoloModel => tfLoad[l] = "unused"

\* Two callers share one pending load.
C8_Witness ==
    \E l \in LoadIds :
        /\ tfLoad[l] = "pending"
        /\ Len(loadWaiters[l]) >= 2
        /\ \A i \in 1..Len(loadWaiters[l]) : calls[loadWaiters[l][i]].pc = "mainLoad"

\* C9: when the reactions to a failed load have run, the memoized promise is
\* not the failed load, yoloModel is null and isModelLoading is false unless
\* a fresh load has started, and every caller that awaited the failed load
\* has been rejected.
C9_FailedLoadCleared ==
    microtasks = <<>> =>
        \A l \in LoadIds :
            tfLoad[l] = "rejected" =>
                /\ modelLoadPromise # l
                /\ yoloModel # l
                /\ modelLoadPromise = NULL => (~isModelLoading /\ yoloModel = NULL)
                /\ \A c \in Callers :
                      calls[c].waitingOn = l => calls[c].pc = "rejected"

\* A load failed with two callers awaiting it, both were rejected, and a
\* later call has started a fresh load.
C9_Witness ==
    /\ microtasks = <<>>
    /\ tfLoad[1] = "rejected"
    /\ tfLoad[2] = "pending"
    /\ modelLoadPromise = 2
    /\ \E c \in Callers : calls[c].waitingOn = 1 /\ calls[c].pc = "rejected"

\* C10: a call that missed the cache and resolved had its detections in the
\* cache under its key when it returned.
C10_ResolvedIsCached ==
    \A c \in Calls :
        (calls[c].pc = "resolved" /\ calls[c].missed) => calls[c].stored

\* C11: a call that follows a resolved call with the same cache key, with no
\* other call in flight and no reset in between, is served from the cache:
\* it returns the list the first call returned, without a worker dispatch
\* and without an in-context inference.
C11_SecondCallServedFromCache ==
    \A c \in Calls :
        (calls[c].after.valid /\ ~calls[c].overlapped /\ calls[c].pc = "resolved")
        => /\ ~calls[c].missed
           /\ calls[c].result = calls[c].after.result
           /\ calls[c].dispatches = 0
           /\ calls[c].mainRuns = 0

\* C12: the step of a detect() call that hits the cache adds one to
\* cachedResults and changes nothing else of the page: no message, no
\* listener, no load, no inference, same cache in the same order.
HitBy(c) ==
    /\ FreeSlot(c)
    /\ started' = started + 1
    /\ calls'[c].pc = "resolved"

C12_HitChangesOnlyCounter ==
    [][\A c \in Calls :
          HitBy(c) =>
             /\ performanceMetrics' =
                   [performanceMetrics EXCEPT !.cachedResults = @ + 1]
             /\ detectionCache' = detectionCache
             /\ inbox' = inbox
             /\ listeners' = listeners
             /\ microtasks' = microtasks
             /\ tfLoad' = tfLoad
             /\ loadWaiters' = loadWaiters
             /\ modelLoadPromise' = modelLoadPromise
             /\ isModelLoading' = isModelLoading
             /\ yoloModel' = yoloModel
             /\ useWebWorker' = useWebWorker
             /\ yoloWorker' = yoloWorker
             /\ calls'[c].dispatches = 0
             /\ calls'[c].mainRuns = 0]_vars

\* A hit on the older of two cached keys.
C12_Witness ==
    \E c \in Calls :
        /\ calls[c].pc = "resolved"
        /\ ~calls[c].missed
        /\ performanceMetrics.cachedResults >= 1
        /\ Len(detectionCache) >= 2
        /\ detectionCache[1].key = generateImageCacheKey(calls[c].img)

\* C15: a rejected call has stored nothing in the cache and has no result
\* listener left on the worker.
C15_RejectedLeavesNoTrace ==
    \A c \in Calls :
        calls[c].pc = "rejected" =>
            /\ calls[c].puts = 0
            /\ \A i \in 1..Len(listeners) : listeners[i] # c

\* A call that had a listener on the worker rejected while the cache held
\* another call's entry.
C15_Witness ==
    \E c \in Calls :
        /\ calls[c].pc = "rejected"
        /\ calls[c].dispatches = 1
        /\ calls[c].workerFailed
        /\ Len(detectionCache) >= 1
        /\ ~CacheHas(detectionCache, generateImageCacheKey(calls[c].img))

\* C13: the detection cache never holds more than MAX_CACHE_SIZE entries.
C13_CacheBounded == Len(detectionCache) <= MAX_CACHE_SIZE

\* The cache is full after more stores than it has room for.
C13_Witness ==
    /\ Len(detectionCache) = MAX_CACHE_SIZE
    /\ ghost.clock > MAX_CACHE_SIZE

\* C14: the cache is ordered by insertion, every key that was stored and is
\* no longer cached was inserted before every cached key, and when no two
\* calls overlapped the cache holds the MAX_CACHE_SIZE most recently
\* inserted keys (all of them while there are fewer).
StampOf(k) == (CHOOSE p \in ghost.stamps : p.key = k).at

CachedKeys == {detectionCache[i].key : i \in 1..Len(detectionCache)}

NmsDone == pure.phase \in {"worker", "iou"}
NmsOutputs == {pure.main, pure.worker}

NoOverlapWithEarlier(out) ==
    \A i \in 1..Len(out), j \in 1..Len(out) :
        i < j => ~IoUGreater(calculateIoU(pure.boxes[out[i]],
                                          pure.boxes[out[j]]), iouThreshold)

\* C16: in the list returned by nonMaxSuppression, of the page script and
\* of the worker script alike, no box has an IoU greater than iouThreshold
\* with a box accepted before it.
C16_NoOverlapInOutput ==
    NmsDone => \A out \in NmsOutputs : NoOverlapWithEarlier(out)

NonIncreasing(out) ==
    \A i \in 1..Len(out) - 1 :
        pure.scores[out[i + 1]] <= pure.scores[out[i]]

FirstIsMaximum(out) ==
    \A k \in 1..Len(pure.scores) : pure.scores[k] <= pure.scores[out[1]]

\* C17: the list returned by nonMaxSuppression has non-increasing scores,
\* and for a non-empty input (and room for one detection) its first element
\* exists and has the maximum score of the input.
C17_AcceptanceOrder ==
    NmsDone =>
        \A out \in NmsOutputs :
            /\ NonIncreasing(out)
            /\ Len(out) > 0 => FirstIsMaximum(out)
            /\ Len(pure.scores) > 0 /\ pure.maxDetections > 0 => Len(out) > 0

\* An unsorted input whose two accepted boxes come out in score order.
C17_Witness ==
    /\ NmsDone
    /\ Len(pure.main) >= 2
    /\ pure.scores[pure.main[1]] > pure.scores[pure.main[2]]
    /\ pure.main[1] > pure.main[2]
    /\ pure.worker = pure.main

\* C18: nonMaxSuppression returns at most maxDetections indices, each at
\* most once, all of them indices of its input; with maxDetections = 1 and
\* a non-empty input it returns exactly one index.
C18_BoundedDistinctIndices ==
    NmsDone =>
        \A out \in NmsOutputs :
            /\ Len(out) <= pure.maxDetections
            /\ \A i \in 1..Len(out) : out[i] \in 1..Len(pure.boxes)
            /\ \A i \in 1..Len(out), j \in 1..Len(out) :
                   i # j => out[i] # out[j]
            /\ pure.maxDetections = 1 /\ Len(pure.boxes) > 0 => Len(out) = 1

\* maxDetections = 1 cuts the result short: the first two candidates do not
\* suppress each other, yet one index is returned.
C18_Witness ==
    /\ NmsDone
    /\ pure.maxDetections = 1
    /\ Len(pure.boxes) >= 2
    /\ ~IoUGreater(calculateIoU(pure.boxes[1], pure.boxes[2]), iouThreshold)
    /\ Len(pure.main) = 1
    /\ Len(pure.worker) = 1

\* C19: among accepted candidates of equal score, the one with the lower
\* input index appears earlier in the output.
C19_TiesInInputOrder ==
    NmsDone =>
        \A out \in NmsOutputs :
            \A i \in 1..Len(out), j \in 1..Len(out) :
                i < j /\ pure.scores[out[i]] = pure.scores[out[j]]
                    => out[i] < out[j]

\* Two accepted candidates of equal score behind a later, higher-scored one.
C19_Witness ==
    /\ NmsDone
    /\ Len(pure.main) = 3
    /\ pure.scores[pure.main[2]] = pure.scores[pure.main[3]]
    /\ pure.main[1] > pure.main[2]
    /\ pure.main[2] < pure.main[3]
    /\ pure.worker = pure.main

ZeroArea(box) == box.width * box.height = 0

\* C20: for two boxes with width >= 0 and height >= 0, calculateIoU (of the
\* page script and of the worker script) divides by a non-zero denominator,
\* returns a number in [0, 1], and returns 0 when a box has zero area.
C20_IoUInUnitRange ==
    pure.phase = "iou" =>
        \A q \in {pure.iou, pure.workerIou} :
            /\ q.den # 0
            /\ 0 <= q.num /\ q.num <= q.den
            /\ ZeroArea(pure.boxes[1]) \/ ZeroArea(pure.boxes[2])
                   => q.num = 0

\* ------------------------------------------------------- decoder claims
Decoded == pure.phase \in {"decoded", "workerDecoded"}
DecodedLists == IF pure.phase = "workerDecoded"
                THEN {pure.detections, pure.workerDetections}
                ELSE {pure.detections}

MaxConfidence(a) ==
    CHOOSE m \in {a.conf[c] : c \in 1..Len(a.conf)} :
        \A c \in 1..Len(a.conf) : a.conf[c] <= m

AnchorsWhere(Test(_)) ==
    {i \in 1..Len(pure.output) : Test(MaxConfidence(pure.output[i]))}

AtLeastThreshold(m) == m >= scoreThreshold
AboveThreshold(m) == m > scoreThreshold

\* C21 as stated: an anchor is discarded exactly when its maximum class
\* confidence is below scoreThreshold, so one detection is emitted for every
\* anchor whose maximum is at least scoreThreshold.
C21_DiscardBelowThreshold ==
    Decoded =>
        \A dets \in DecodedLists :
            Len(dets) = Cardinality(AnchorsWhere(AtLeastThreshold))

\* C21 amended: an anchor is discarded exactly when its maximum class
\* confidence is at most scoreThreshold; a single anchor with maximum 0.2,
\* or with maximum equal to the threshold 0.25, yields no detection.
C21_DiscardAtOrBelowThreshold ==
    Decoded =>
        \A dets \in DecodedLists :
            /\ Len(dets) = Cardinality(AnchorsWhere(AboveThreshold))
            /\ Len(pure.output) = 1 /\ MaxConfidence(pure.output[1]) \in {20, 25}
                   => dets = <<>>

\* One anchor at 0.2, one exactly at the threshold and nothing emitted, by
\* either script.
C21_Witness ==
    /\ pure.phase = "workerDecoded"
    /\ Len(pure.output) = 2
    /\ MaxConfidence(pure.output[1]) = 20
    /\ MaxConfidence(pure.output[2]) = scoreThreshold
    /\ pure.detections = <<>>
    /\ pure.workerDetections = <<>>

\* C22: every detection emitted by the decoder has a score strictly greater
\* than scoreThreshold and, the raw box values being in [0, 1] and the image
\* dimensions non-negative, a width and a height that are >= 0.
C22_ScoreAboveThresholdSizeNonNegative ==
    Decoded =>
        \A dets \in DecodedLists :
            \A k \in 1..Len(dets) :
                /\ dets[k].score > scoreThreshold
                /\ dets[k].width >= 0
                /\ dets[k].height >= 0

\* An emitted detection of zero width next to an anchor at the threshold
\* that was dropped.
C22_Witness ==
    /\ Decoded
    /\ Len(pure.output) = 2
    /\ MaxConfidence(pure.output[1]) = scoreThreshold
    /\ Len(pure.detections) = 1
    /\ pure.detections[1].width = 0
    /\ pure.detections[1].height > 0

\* The anchors the decoder retains, in anchor order.
Retained == SelectSeq(pure.output, LAMBDA a : MaxConfidence(a) > scoreThreshold)

LowestClassOfMaximum(a) ==
    CHOOSE c \in 0..Len(a.conf) - 1 :
        /\ a.conf[c + 1] = MaxConfidence(a)
        /\ \A b \in 0..c - 1 : a.conf[b + 1] # MaxConfidence(a)

\* C23: the score of an emitted detection is the maximum of its anchor's
\* class confidences and its class is the lowest index at which that
\* maximum occurs; when all confidences are equal the class is 0.
C23_FirstMaximumClass ==
    Decoded =>
        \A dets \in DecodedLists :
            /\ Len(dets) = Len(Retained)
            /\ \A k \in 1..Len(dets) :
                   LET a == Retained[k] IN
                   /\ dets[k].score = MaxConfidence(a)
                   /\ dets[k].class = LowestClassOfMaximum(a)
                   /\ (\A c \in 1..Len(a.conf) : a.conf[c] = a.conf[1])
                          => dets[k].class = 0

\* One anchor with all confidences equal (class 0) and one whose maximum is
\* at the last class.
C23_Witness ==
    /\ pure.phase = "workerDecoded"
    /\ Len(pure.detections) = 2
    /\ \A c \in 1..NumClasses : pure.output[1].conf[c] = 90
    /\ pure.detections[1].class = 0
    /\ pure.detections[2].class = NumClasses - 1
    /\ pure.workerDetections = pure.detections

\* C24: the k-th emitted detection is the k-th retained anchor with
\* x = (cx - w/2) * imageWidth, y = (cy - h/2) * imageHeight,
\* width = w * imageWidth, height = h * imageHeight (all times 2 * MaxRaw
\* here), not clamped to the image.
C24_CentreSizeTransform ==
    Decoded =>
        \A dets \in DecodedLists :
            /\ Len(dets) = Len(Retained)
            /\ \A k \in 1..Len(dets) :
                   LET a == Retained[k] IN
                   /\ dets[k].x + a.w * pure.imgWidth
                          = 2 * a.x * pure.imgWidth
                   /\ dets[k].y + a.h * pure.imgHeight
                          = 2 * a.y * pure.imgHeight
                   /\ dets[k].width = 2 * a.w * pure.imgWidth
                   /\ dets[k].height = 2 * a.h * pure.imgHeight

\* Two boxes in anchor order, the first of which starts left of the image.
C24_Witness ==
    /\ Decoded
    /\ Len(pure.output) = 2
    /\ Len(pure.detections) = 2
    /\ pure.detections[1].x < 0
    /\ pure.detections[2].x >= 0
    /\ pure.detections[1].width # pure.detections[2].width

\* --------------------------------------------------------- cache key claim
\* C25: two images whose sources agree on their first 50 characters and
\* whose dimensions are equal get the same key, and a detect() on the second
\* that follows a resolved detect() on the first (nothing else in flight, no
\* reset in between) returns the first image's detections from the cache.
C25_SamePrefixSameEntry ==
    /\ \A a \in KeyImages, b \in KeyImages :
           (/\ SubSeq(a.src, 1, KeySrcLen) = SubSeq(b.src, 1, KeySrcLen)
            /\ a.width = b.width /\ a.height = b.height)
               => generateImageCacheKey(a) = generateImageCacheKey(b)
    /\ \A c \in Calls :
           (/\ calls[c].after.valid
            /\ calls[c].after.result # DetectionsOf(calls[c].img)
            /\ calls[c].pc = "resolved")
               => /\ ~calls[c].missed
                  /\ calls[c].result = calls[c].after.result

\* --------------------------------------------------------- metrics claims
Counters == {"inferenceCount", "totalInferenceTime", "cachedResults",
             "workerUsage"}

\* C26: in every step other than a reset none of inferenceCount,
\* totalInferenceTime, cachedResults and workerUsage decreases.
C26_CountersMonotone ==
    [][~resetPerformanceMetrics =>
          \A f \in Counters : performanceMetrics'[f] >= performanceMetrics[f]]_vars

\* All four counters have grown: a worker dispatch, two counted inferences
\* with measured time, and a hit.
C26_Witness ==
    /\ performanceMetrics.inferenceCount >= 2
    /\ performanceMetrics.totalInferenceTime >= 1
    /\ performanceMetrics.cachedResults >= 1
    /\ performanceMetrics.workerUsage >= 1

\* C27: getPerformanceMetrics() reports the literal '0%' as cacheHitRate
\* exactly when inferenceCount + cachedResults is 0, and otherwise
\* cachedResults / (inferenceCount + cachedResults) as a percentage with one
\* decimal; after 3 counted inferences and 1 hit it reports 25.0%.
C27_CacheHitRate ==
    LET r == getPerformanceMetrics(Page).cacheHitRate
        c == performanceMetrics.cachedResults
        d == performanceMetrics.inferenceCount + c
        diff == r.tenths * d - 1000 * c
    IN  /\ r = ZeroPercent <=> d = 0
        /\ d > 0 => /\ r.text = "fixed"
                    /\ 2 * diff <= d
                    /\ 2 * diff >= 0 - d
        /\ performanceMetrics.inferenceCount = 3 /\ c = 1 => r.tenths = 250

C27_Witness ==
    /\ performanceMetrics.inferenceCount = 3
    /\ performanceMetrics.cachedResults = 1
    /\ getPerformanceMetrics(Page).cacheHitRate = Percent(1, 4)

\* C28: a step that lowers a counter, or removes cache entries without
\* being a counted store (which may evict), is a complete reset: after it
\* every counter is 0 and the cache is empty, so no later read sees counters
\* reset without the cache cleared, or only some counters reset.
C28_ResetIsOneStep ==
    [][(\/ \E f \in Counters : performanceMetrics'[f] < performanceMetrics[f]
        \/ /\ Len(detectionCache') < Len(detectionCache)
           /\ performanceMetrics'.inferenceCount
                  <= performanceMetrics.inferenceCount)
          => /\ performanceMetrics' = ZeroMetrics
             /\ detectionCache' = <<>>]_vars

\* A reset came after a call had stored its result and counted itself.
C28_Witness ==
    /\ performanceMetrics = ZeroMetrics
    /\ detectionCache = <<>>
    /\ \E c \in Calls : calls[c].pc = "resolved" /\ calls[c].puts > 0

\* ----------------------------------------------------------- worker claims
Owed == wHistory.loads + wHistory.infers

ProgressPosted ==
    /\ Len(outbox') = Len(outbox) + 1
    /\ outbox'[Len(outbox')].type = "progress"

\* C29: the requests the worker has received and not yet answered with
\* their terminal response are exactly the load it is running and the
\* inferences it is running (none answered twice, none dropped), every one
\* of them is eventually answered, and a 'progress' message is posted only
\* while the load that produced it has not yet posted its 'loaded'.
C29_OneTerminalResponse ==
    /\ [](/\ wHistory.loads = (IF wIsModelLoading THEN 1 ELSE 0)
          /\ wHistory.infers = Len(wRunning))
    /\ [][ProgressPosted => wHistory.loads = 1 /\ wHistory'.loads = 1]_vars
    /\ (Owed > 0) ~> (Owed = 0)

\* Every request was answered: a progress message before a 'loaded', a
\* second 'loaded' for a load that arrived meanwhile, and a 'result'.
C29_Witness ==
    /\ started = MaxRequests
    /\ inbox = <<>>
    /\ Owed = 0
    /\ Len(outbox) = 4
    /\ outbox[1].type = "progress"
    /\ outbox[2] = [type |-> "loaded", success |-> FALSE]
    /\ outbox[3] = [type |-> "loaded", success |-> TRUE]
    /\ outbox[4].type = "result"

\* C30: no inference run, in the page (detectMedicineMainThread) or in the
\* worker (runInference), settles with its input tensor or its prediction
\* tensors not disposed, whether it succeeded or threw.
C30_TensorsDisposed ==
    /\ \A c \in Calls : ~calls[c].undisposed
    /\ \A i \in 1..Len(outbox) :
           outbox[i].type = "result" => ~outbox[i].undisposed

\* ------------------------------------------------- establishing the worker
\* Call c went to the caller context directly: it missed the cache and ran
\* detectMedicineMainThread without a dispatch to the worker before it.
WentDirectlyToCaller(c) ==
    /\ calls[c].missed
    /\ calls[c].mainRuns > 0
    /\ calls[c].dispatches = 0
    /\ ~calls[c].workerFailed

\* C31: a detect() call made while no worker has been created by a preload
\* attempts to create the worker if window.Worker is available; it goes to
\* the caller context directly only when the capability is unavailable or
\* the creation failed (which clears useWebWorker).
C31_FirstCallEstablishesWorker ==
    \A c \in Calls :
        WentDirectlyToCaller(c) =>
            \/ wScript # "none"
            \/ ~windowWorker
            \/ ~useWebWorker

\* ------------------------------------------ the two suppression functions
\* C32: for the same boxes, scores, iouThreshold and maxDetections the page
\* script's nonMaxSuppression and the worker's nonMaxSuppression return the
\* same index list.
C32_SameSelectionInBothContexts ==
    NmsDone => pure.main = pure.worker

\* ------------------------------------------------- counters and outcomes
\* C33: since the last reset, inferenceCount equals the number of detect()
\* calls that missed the cache and resolved, whichever path produced the
\* result: worker, caller context, or the in-context retry after a worker
\* failure.
C33_InferenceCountCountsResolvedMisses ==
    performanceMetrics.inferenceCount = ghost.misses

\* C34: whenever no detect() call is in flight, workerUsage <= inferenceCount
\* and the workerUsagePercent that getPerformanceMetrics() reports is at most
\* 100%, also after a worker failure followed by calls served in the caller
\* context.
C34_WorkerUsageAtMostInferences ==
    (\A c \in Calls : ~InFlight(calls[c])) =>
        /\ performanceMetrics.workerUsage <= performanceMetrics.inferenceCount
        /\ getPerformanceMetrics(Page).workerUsagePercent.tenths <= 1000

\* C35: in every reachable state cachedResults > 0 implies
\* inferenceCount > 0: a cache hit can only follow a counted inference since
\* the last reset, under any interleaving of detect(), completions, failures
\* and reset().
C35_HitsImplyCountedInference ==
    performanceMetrics.cachedResults > 0 =>
        performanceMetrics.inferenceCount > 0

\* After a worker failure whose retry resolved uncounted, a later call was
\* counted and cached and the call after it was served from the cache.
C35_Witness ==
    /\ ~useWebWorker
    /\ yoloWorker # NULL
    /\ performanceMetrics.cachedResults = 1
    /\ performanceMetrics.inferenceCount = 1
    /\ ghost.misses = 2
    /\ \E c \in Calls : calls[c].pc = "resolved" /\ ~calls[c].missed

\* ------------------------------------------------- stores under a cached key
\* C36: the cache removes an entry only to make room for a key that is not
\* yet present: a step that is not a reset and adds no new key (a store
\* under a key already cached, by the second of two overlapping calls that
\* both missed) removes no key and leaves the cache size unchanged.
C36_EvictsOnlyForNewKey ==
    [][(/\ CachedKeys' \subseteq CachedKeys
        /\ ~(detectionCache' = <<>> /\ performanceMetrics' = ZeroMetrics))
          => /\ CachedKeys' = CachedKeys
             /\ Len(detectionCache') = Len(detectionCache)]_vars

\* ------------------------------------------- an 'infer' before the load
\* The worker's listener takes an 'infer' request while its model is not
\* loaded.
InferHandledUnloaded ==
    /\ wScript = "running"
    /\ inbox # <<>>
    /\ Head(inbox).type = "infer"
    /\ ~wYoloModel
    /\ inbox' = Tail(inbox)

NotLoadedAnswer(msg) ==
    /\ msg.type = "result"
    /\ ~msg.success
    /\ msg.error = "Model not loaded"

\* The page receives the worker's answer 'Model not loaded'.
NotLoadedAnswerDelivered ==
    /\ outbox # <<>>
    /\ NotLoadedAnswer(Head(outbox))
    /\ outbox' = Tail(outbox)

\* The catch block of call c has run after the worker failed the call.
CaughtWorkerFailure(c) ==
    /\ calls[c].workerFailed
    /\ calls[c].pc # "workerRejected"

\* C37: an 'infer' request that the worker handles before its model is
\* loaded is answered at once with the failed 'result' 'Model not loaded',
\* and no inference is started for it; when the page receives that answer
\* every call waiting for the worker is rejected (and if none is waiting,
\* the page is downgraded already); a call whose catch block has run after
\* such a rejection leaves useWebWorker = FALSE, and useWebWorker never
\* becomes TRUE again, whatever the worker's load does afterwards.
C37_EarlyInferDowngrades ==
    /\ [][InferHandledUnloaded =>
            /\ outbox' = Append(outbox, FailedResult("Model not loaded"))
            /\ wRunning' = wRunning]_vars
    /\ [][NotLoadedAnswerDelivered =>
            /\ \A i \in 1..Len(listeners) :
                   /\ calls'[listeners[i]].pc = "workerRejected"
                   /\ calls'[listeners[i]].workerFailed
            /\ listeners = <<>> => ~useWebWorker]_vars
    /\ [](\A c \in Calls : CaughtWorkerFailure(c) => ~useWebWorker)
    /\ [][~useWebWorker => ~useWebWorker']_vars

\* The worker's model is loaded and its 'loaded' message is still on its way,
\* while the call whose 'infer' overtook the load has already been failed by
\* the worker, retried in the caller context and resolved: the page is
\* downgraded although the worker is now ready.
C37_Witness ==
    /\ wYoloModel
    /\ ~useWebWorker
    /\ yoloWorker # NULL
    /\ \E i \in 1..Len(outbox) :
          outbox[i] = [type |-> "loaded", success |-> TRUE]
    /\ \E c \in Calls :
          /\ calls[c].pc = "resolved"
          /\ calls[c].workerFailed
          /\ calls[c].err = "worker"
          /\ calls[c].dispatches = 1
          /\ calls[c].mainRuns = 1

\* ------------------------------------------------- the service worker
\* The first step of fetch event e after the listener returned.
CacheLookedUp(e) ==
    /\ sw.events[e].pc = "matching"
    /\ sw'.events[e].pc # "matching"

StoredByFetch(en) == en \notin Precached

\* C38: the service worker answers a fetch itself exactly when the request
\* path is one of the 12 files of MODEL_FILES, cache-first: a response found
\* in the cache is returned without a network fetch; on a miss it fetches
\* once and returns the network's response, and puts it in the cache only if
\* its status is 200 and its type is 'basic'; any other request is left to
\* the browser: no fetch by the service worker, nothing stored.
C38_CacheFirstForModelFiles ==
    /\ [](\A e \in FetchSlots :
            LET ev == sw.events[e] IN
            ev.pc # "idle" =>
              /\ ev.responded <=> ev.req.path \in MODEL_FILES
              /\ ev.fromCache => ev.netFetches = 0 /\ ~ev.stored /\ ~ev.putPending
              /\ (ev.responded /\ ev.pc = "done" /\ ~ev.fromCache) =>
                    ev.netFetches = 1 /\ ev.answer = ev.net
              /\ (ev.putPending \/ ev.stored) =>
                    ev.net.status = 200 /\ ev.net.type = "basic"
              /\ ~ev.responded =>
                    ev.netFetches = 0 /\ ~ev.stored /\ ~ev.putPending)
    /\ [](\A en \in sw.cache :
            /\ en.url.path \in MODEL_FILES
            /\ en.resp.status = 200
            /\ en.resp.type = "basic")
    /\ [][\A e \in FetchSlots :
            CacheLookedUp(e) =>
              IF \E en \in sw.cache : en.url = sw.events[e].req
              THEN /\ sw'.events[e].pc = "done"
                   /\ sw'.events[e].netFetches = 0
                   /\ [url |-> sw.events[e].req,
                       resp |-> sw'.events[e].answer] \in sw.cache
              ELSE sw'.events[e].pc = "fetching"]_vars
    /\ [][sw'.cache # sw.cache =>
            \/ sw.phase = "off"
            \/ \E e \in FetchSlots :
                  /\ sw.events[e].putPending
                  /\ sw.events[e].req.path \in MODEL_FILES
                  /\ sw.events[e].net.status = 200
                  /\ sw.events[e].net.type = "basic"]_vars

\* After a failed precache one model file was fetched, answered from the
\* network and stored; the same file was then served from the cache, and a
\* request that is no model file passed through to the browser's own fetch.
C38_Witness ==
    /\ sw.fetched = MaxFetches
    /\ Cardinality(sw.cache) = 1
    /\ \A en \in sw.cache : StoredByFetch(en)
    /\ \E e \in FetchSlots :
          /\ sw.events[e].pc = "done"
          /\ sw.events[e].fromCache
          /\ \E en \in sw.cache : en.url = sw.events[e].req
    /\ \E e \in FetchSlots :
          /\ sw.events[e].pc = "done"
          /\ sw.events[e].req.path = "/static/model.json.bak"
          /\ ~sw.events[e].responded
          /\ sw.events[e].answer.status = 200

\* C39: when the network fetch of a model file that is not in the cache
\* fails, the service worker fetches again before the failure reaches the
\* page: an event that the page sees fail was fetched at least twice.
C39_FailedFetchIsRetried ==
    \A e \in FetchSlots :
        (/\ sw.events[e].pc = "done"
         /\ sw.events[e].responded
         /\ sw.events[e].answer = NetworkError)
            => sw.events[e].netFetches >= 2

====
